---- MODULE Spec2Model ----
(***************************************************************************)
(* Risk / pricing kernel of the spot-margin program (programs/spot_margin). *)
(* The kernel is a library of pure functions; the state of the model is    *)
(* the last call made into it: the function called, its arguments and the  *)
(* value it returned.  Every function is an operator computed step by      *)
(* step as the Rust code computes it, with checked arithmetic.             *)
(*                                                                         *)
(* Integer widths are scaled down: the largest values of i64, u64, i128    *)
(* and u128 are the definitions I64_MAX .. U128_MAX below, which keep the   *)
(* inclusions i64 < u64 <= i128 < u128 of the machine types.  The program's *)
(* precision constants keep their source values.  A product of two          *)
(* u64-sized operands that is divided at once (x.safe_mul(y)?.safe_div(z)?)  *)
(* is divided exactly even when it exceeds the model's u128, since the      *)
(* machine's u128 holds every such product.                                 *)
(***************************************************************************)
EXTENDS Integers, Sequences, FiniteSets, TLC

VARIABLES fn, args, ret

vars == <<fn, args, ret>>

(***************************************************************************)
(* Bounds of the model.                                                    *)
(***************************************************************************)
\* largest value of the model's i64
I64_MAX == 500000000
\* amounts, balances and prices are drawn from 0..MaxSmall plus edge values
MaxSmall == 3
\* limit prices are drawn from 0..MaxPrice, tick sizes from 0..MaxTick
MaxPrice == 12
MaxTick == 5
\* operands of the arithmetic primitives are drawn from -MaxOperand..MaxOperand
\* plus edge values
MaxOperand == 4
\* data points of weighted_average are drawn from -MaxPoint..MaxPoint and its
\* weights from -1..MaxWeight, plus edge values
MaxPoint == 3
MaxWeight == 3
\* updates in a sequence of TWAP updates
MaxUpdates == 2
\* base lots of an order and lots to fill
MaxLots == 2
\* calls in a sequence on one SpotBalance object
MaxCalls == 3

I64_MIN == -I64_MAX - 1
U64_MAX == 2 * I64_MAX + 1
I128_MAX == U64_MAX
I128_MIN == -I128_MAX - 1
U128_MAX == 2 * I128_MAX + 1

(***************************************************************************)
(* math/constants.rs                                                       *)
(***************************************************************************)
PERCENTAGE_PRECISION == 1000000
PERCENTAGE_PRECISION_U64 == PERCENTAGE_PRECISION
BID_ASK_SPREAD_PRECISION == PERCENTAGE_PRECISION
BID_ASK_SPREAD_PRECISION_I128 == BID_ASK_SPREAD_PRECISION
SPOT_UTILIZATION_PRECISION == PERCENTAGE_PRECISION
SPOT_RATE_PRECISION == PERCENTAGE_PRECISION
ONE_YEAR == 31536000

(***************************************************************************)
(* Result<T, ErrorCode> and Option<T>                                      *)
(***************************************************************************)
NoError == "NoError"

Ok(v) == [ok |-> TRUE, val |-> v, err |-> NoError]

ErrInt(e) == [ok |-> FALSE, val |-> 0, err |-> e]

\* results carrying a boolean (flag) and an enum value (tag)
OkBool(b) == [ok |-> TRUE, flag |-> b, err |-> NoError]
ErrBool(e) == [ok |-> FALSE, flag |-> FALSE, err |-> e]
OkEnum(t) == [ok |-> TRUE, tag |-> t, err |-> NoError]
ErrEnum(e) == [ok |-> FALSE, tag |-> "NoValue", err |-> e]

Some(v) == [some |-> TRUE, v |-> v]
None == [some |-> FALSE, v |-> 0]

(***************************************************************************)
(* Primitive integer operations of Rust, on a type with range lo..hi.      *)
(***************************************************************************)
Abs(x) == IF x < 0 THEN -x ELSE x
Max(a, b) == IF a >= b THEN a ELSE b
Min(a, b) == IF a <= b THEN a ELSE b

\* Rust's `/` on integers truncates toward zero
TruncDiv(a, b) ==
    IF (a >= 0) = (b > 0) THEN Abs(a) \div Abs(b) ELSE -(Abs(a) \div Abs(b))

\* Rust's `%` takes the sign of the dividend
TruncRem(a, b) == a - b * TruncDiv(a, b)

checked_add(a, b, lo, hi) ==
    IF (b >= 0 /\ a > hi - b) \/ (b < 0 /\ a < lo - b) THEN None ELSE Some(a + b)

checked_sub(a, b, lo, hi) ==
    IF (b >= 0 /\ a < lo + b) \/ (b < 0 /\ a > hi + b) THEN None ELSE Some(a - b)

\* the product is formed only when it is representable
checked_mul(a, b, lo, hi) ==
    IF a = 0 \/ b = 0 THEN Some(0)
    ELSE IF (a > 0) = (b > 0)
         THEN IF Abs(a) > hi \div Abs(b) THEN None ELSE Some(a * b)
         ELSE IF Abs(a) > (-lo) \div Abs(b) THEN None ELSE Some(a * b)

checked_div(a, b, lo, hi) ==
    IF b = 0 \/ (lo < 0 /\ a = lo /\ b = -1) THEN None ELSE Some(TruncDiv(a, b))

checked_rem(a, b, lo, hi) ==
    IF b = 0 \/ (lo < 0 /\ a = lo /\ b = -1) THEN None ELSE Some(TruncRem(a, b))

checked_rem_euclid(a, b, lo, hi) ==
    IF b = 0 \/ (lo < 0 /\ a = lo /\ b = -1) THEN None ELSE Some(a % Abs(b))

checked_ceil_div(a, b, lo, hi) ==
    LET quotient == checked_div(a, b, lo, hi)
        remainder == checked_rem(a, b, lo, hi)
    IN  IF ~quotient.some THEN None
        ELSE IF ~remainder.some THEN None
        ELSE IF remainder.v > 0 THEN checked_add(quotient.v, 1, lo, hi)
        ELSE Some(quotient.v)

\* math/floor_div.rs: the truncated quotient, less one whenever the remainder
\* is not zero
checked_floor_div(a, b, lo, hi) ==
    LET quotient == checked_div(a, b, lo, hi)
        remainder == checked_rem(a, b, lo, hi)
    IN  IF ~quotient.some THEN None
        ELSE IF ~remainder.some THEN None
        ELSE IF remainder.v # 0 THEN checked_sub(quotient.v, 1, lo, hi)
        ELSE Some(quotient.v)

\* SafeMath: the checked operation, MathError on None
SafeOf(opt) == IF opt.some THEN Ok(opt.v) ELSE ErrInt("MathError")

\* a variant of safe_add that saturates at the ends of the type instead of failing
safe_add_saturating(a, b, lo, hi) ==
    LET sum == checked_add(a, b, lo, hi)
    IN  IF sum.some THEN Ok(sum.v) ELSE IF b >= 0 THEN Ok(hi) ELSE Ok(lo)

safe_add(a, b, lo, hi) == SafeOf(checked_add(a, b, lo, hi))
safe_sub(a, b, lo, hi) == SafeOf(checked_sub(a, b, lo, hi))
safe_mul(a, b, lo, hi) == SafeOf(checked_mul(a, b, lo, hi))
safe_div(a, b, lo, hi) == SafeOf(checked_div(a, b, lo, hi))
safe_ceil_div(a, b, lo, hi) == SafeOf(checked_ceil_div(a, b, lo, hi))
safe_floor_div(a, b, lo, hi) == SafeOf(checked_floor_div(a, b, lo, hi))

\* Cast::cast: TryFrom into the type with range lo..hi
cast(x, lo, hi) == IF x < lo \/ x > hi THEN ErrInt("CastingFailure") ELSE Ok(x)

(***************************************************************************)
(* math/bignumber.rs: U256 and U192 are arrays of 4 and 3 u64 words, least  *)
(* significant word first; a byte buffer is a sequence of values 0..255.    *)
(* An operation that panics returns err = "panic".                          *)
(***************************************************************************)
U256 == [name |-> "U256", n_words |-> 4, size_of |-> 32]
U192 == [name |-> "U192", n_words |-> 3, size_of |-> 24]

OkBytes(b) == [ok |-> TRUE, bytes |-> b, err |-> NoError]
ErrBytes(e) == [ok |-> FALSE, bytes |-> <<>>, err |-> e]
OkWords(w) == [ok |-> TRUE, words |-> w, err |-> NoError]
ErrWords(e) == [ok |-> FALSE, words |-> <<>>, err |-> e]

\* [0u8; n]
Zeroed(n) == [i \in 1 .. n |-> 0]

\* LittleEndian::write_u64: the n least significant bytes of w, lowest first
RECURSIVE write_u64(_, _)
write_u64(w, n) == IF n = 0 THEN <<>> ELSE <<w % 256>> \o write_u64(w \div 256, n - 1)

\* LittleEndian::read_u64
RECURSIVE read_u64(_)
read_u64(bytes) ==
    IF bytes = <<>> THEN 0 ELSE bytes[1] + 256 * read_u64(Tail(bytes))

\* uint's to_little_endian(&self, bytes: &mut [u8]): writes word i at bytes[8 * i ..],
\* which panics when the slice is shorter than the words
to_little_endian(words, bytes) ==
    IF Len(bytes) < 8 * Len(words) THEN ErrBytes("panic")
    ELSE OkBytes([i \in 1 .. Len(bytes) |->
                    IF i <= 8 * Len(words)
                    THEN write_u64(words[((i - 1) \div 8) + 1], 8)[((i - 1) % 8) + 1]
                    ELSE bytes[i]])

\* uint's from_little_endian(slice): assert!(n_words * 8 >= slice.len())
from_little_endian(slice, n_words) ==
    IF n_words * 8 < Len(slice) THEN ErrWords("panic")
    ELSE OkWords([w \in 1 .. n_words |->
                    read_u64(SubSeq(slice, Min(8 * (w - 1) + 1, Len(slice) + 1),
                                    Min(8 * w, Len(slice))))])

\* <[u8]>::copy_from_slice panics unless both slices have the same length
copy_from_slice(dst, src) ==
    IF Len(dst) # Len(src) THEN ErrBytes("panic") ELSE OkBytes(src)

\* U256::from_le_bytes and U192::from_le_bytes, both of a [u8; 32]
from_le_bytes(ty, bytes) == from_little_endian(bytes, ty.n_words)

\* U256::to_le_bytes and U192::to_le_bytes: the buffer is Vec::with_capacity(..),
\* a vector of length 0
to_le_bytes(ty, words) ==
    LET buf == <<>>
        written == to_little_endian(words, buf)
    IN  IF ~written.ok THEN written ELSE copy_from_slice(Zeroed(32), written.bytes)

\* <[u8; 32]>::try_from(slice).unwrap()
try_into_array_32(slice) == IF Len(slice) # 32 THEN ErrBytes("panic") ELSE OkBytes(slice)

\* BorshDeserialize::deserialize: the value read from the front of buf
deserialize(ty, buf) ==
    IF Len(buf) < ty.size_of THEN ErrWords("InvalidInput")
    ELSE LET array == try_into_array_32(SubSeq(buf, 1, ty.size_of))
         IN  IF ~array.ok THEN ErrWords(array.err) ELSE from_le_bytes(ty, array.bytes)

(***************************************************************************)
(* math/balance.rs and math/spot_balance.rs: calculate_utilization          *)
(***************************************************************************)
\* the literal 0_128 of the source is the decimal integer 128
ZeroUtilizationLiteral == 128

\* a variant that divides with safe_div and so faults on a zero divisor
calculate_utilization_faulting(deposit_token_account, borrow_token_account) ==
    LET product == safe_mul(borrow_token_account, SPOT_UTILIZATION_PRECISION, 0, U128_MAX)
    IN  IF ~product.ok THEN product
        ELSE safe_div(product.val, deposit_token_account, 0, U128_MAX)

calculate_utilization(deposit_token_account, borrow_token_account) ==
    LET product == safe_mul(borrow_token_account, SPOT_UTILIZATION_PRECISION, 0, U128_MAX)
        fallback == IF deposit_token_account = 0 /\ borrow_token_account = 0
                    THEN ZeroUtilizationLiteral
                    ELSE SPOT_UTILIZATION_PRECISION
    IN  IF ~product.ok THEN product
        ELSE LET quotient == checked_div(product.val, deposit_token_account, 0, U128_MAX)
             IN  Ok(IF quotient.some THEN quotient.v ELSE fallback)

spot_balance_calculate_utilization(deposit_token_account, borrow_token_account) ==
    LET product == safe_mul(borrow_token_account, SPOT_UTILIZATION_PRECISION, 0, U128_MAX)
        fallback == IF deposit_token_account = 0 /\ borrow_token_account = 0
                    THEN ZeroUtilizationLiteral
                    ELSE SPOT_UTILIZATION_PRECISION
    IN  IF ~product.ok THEN product
        ELSE LET quotient == checked_div(product.val, deposit_token_account, 0, U128_MAX)
             IN  Ok(IF quotient.some THEN quotient.v ELSE fallback)

(***************************************************************************)
(* math/balance.rs: token amounts and accumulated interest                 *)
(***************************************************************************)
RECURSIVE Pow10(_)
Pow10(n) == IF n = 0 THEN 1 ELSE 10 * Pow10(n - 1)

NoInterest == [deposits_interest |-> 0, borrows_interest |-> 0]

OkInterest(i) == [ok |-> TRUE, interest |-> i, err |-> NoError]
ErrInterest(e) == [ok |-> FALSE, interest |-> NoInterest, err |-> e]

\* 10_u128.pow(19_u32.safe_sub(market.decimals)?)
precision_downtick(market) ==
    LET exponent == safe_sub(19, market.decimals, 0, U64_MAX)
    IN  IF ~exponent.ok THEN exponent ELSE Ok(Pow10(exponent.val))

\* the quotient and the remainder of a * b by c > 0, for a product of two
\* u64-sized operands, which a u128 always holds: the product is never formed,
\* the quotient is built by doubling along the bits of b; overflow reports a
\* quotient beyond U128_MAX
RECURSIVE product_div_rem(_, _, _)
product_div_rem(a, b, c) ==
    IF b = 0 THEN [overflow |-> FALSE, q |-> 0, r |-> 0]
    ELSE LET half == product_div_rem(a, b \div 2, c)
             carry_double == IF half.r >= c - half.r THEN 1 ELSE 0
             r_double == IF carry_double = 1 THEN half.r - (c - half.r) ELSE half.r + half.r
             q_double == 2 * half.q + carry_double
             a_q == IF b % 2 = 1 THEN a \div c ELSE 0
             a_r == IF b % 2 = 1 THEN a % c ELSE 0
             carry_add == IF r_double >= c - a_r THEN 1 ELSE 0
             r_add == IF carry_add = 1 THEN r_double - (c - a_r) ELSE r_double + a_r
         IN  IF half.overflow \/ half.q > U128_MAX \div 2
             THEN [overflow |-> TRUE, q |-> 0, r |-> 0]
             ELSE IF a_q + carry_add > U128_MAX - q_double
             THEN [overflow |-> TRUE, q |-> 0, r |-> 0]
             ELSE [overflow |-> FALSE, q |-> q_double + a_q + carry_add, r |-> r_add]

\* a.safe_mul(b)?.safe_div(c)?: as the primitives compute it when the product
\* fits the model's u128; a larger product of two u64-sized operands, which the
\* machine's u128 holds, is divided exactly
mul_then_div(a, b, c) ==
    LET product == safe_mul(a, b, 0, U128_MAX)
    IN  IF product.ok THEN safe_div(product.val, c, 0, U128_MAX)
        ELSE IF c = 0 \/ a > U64_MAX \/ b > U64_MAX THEN ErrInt("MathError")
        ELSE LET wide == product_div_rem(a, b, c)
             IN  IF wide.overflow THEN ErrInt("MathError") ELSE Ok(wide.q)

\* a.safe_mul(b)?.safe_ceil_div(c)?
mul_then_ceil_div(a, b, c) ==
    LET product == safe_mul(a, b, 0, U128_MAX)
    IN  IF product.ok THEN safe_ceil_div(product.val, c, 0, U128_MAX)
        ELSE IF c = 0 \/ a > U64_MAX \/ b > U64_MAX THEN ErrInt("MathError")
        ELSE LET wide == product_div_rem(a, b, c)
             IN  IF wide.overflow THEN ErrInt("MathError")
                 ELSE IF wide.r > 0 THEN safe_add(wide.q, 1, 0, U128_MAX)
                 ELSE Ok(wide.q)

\* 10_u128.pow(19_u32.safe_sub(market.decimals)?)
precision_uptick(market) ==
    LET exponent == safe_sub(19, market.decimals, 0, U64_MAX)
    IN  IF ~exponent.ok THEN exponent ELSE Ok(Pow10(exponent.val))

get_spot_asset_balance(amount, market, balance_type, approximate_up) ==
    LET uptick == precision_uptick(market)
        cumulative_interest_deposit_borrow ==
            IF balance_type = "Deposits" THEN market.cumulative_deposit_interest
            ELSE market.cumulative_borrow_interest
        balance == mul_then_div(amount, uptick.val, cumulative_interest_deposit_borrow)
    IN  IF ~uptick.ok THEN uptick
        ELSE IF ~balance.ok THEN balance
        ELSE IF approximate_up /\ balance.val > 0 THEN safe_add(balance.val, 1, 0, U128_MAX)
        ELSE balance

\* a variant that rounds the borrows down like the deposits
get_amount_of_tokens_floor_both(balance, market, balance_type) ==
    LET downtick == precision_downtick(market)
        cumulative_interest_deposit_borrow ==
            IF balance_type = "Deposits" THEN market.cumulative_deposit_interest
            ELSE market.cumulative_borrow_interest
    IN  IF ~downtick.ok THEN downtick
        ELSE IF balance_type = "Deposits"
        THEN mul_then_div(balance, cumulative_interest_deposit_borrow, downtick.val)
        ELSE mul_then_div(balance, cumulative_interest_deposit_borrow, downtick.val)

get_amount_of_tokens(balance, market, balance_type) ==
    LET downtick == precision_downtick(market)
        cumulative_interest_deposit_borrow ==
            IF balance_type = "Deposits" THEN market.cumulative_deposit_interest
            ELSE market.cumulative_borrow_interest
    IN  IF ~downtick.ok THEN downtick
        ELSE IF balance_type = "Deposits"
        THEN mul_then_div(balance, cumulative_interest_deposit_borrow, downtick.val)
        ELSE mul_then_ceil_div(balance, cumulative_interest_deposit_borrow, downtick.val)

calculate_per_market_utilization(market) ==
    LET deposits == get_amount_of_tokens(market.deposit_balance, market, "Deposits")
        borrows == get_amount_of_tokens(market.borrow_balance, market, "Borrows")
    IN  IF ~deposits.ok THEN deposits
        ELSE IF ~borrows.ok THEN borrows
        ELSE calculate_utilization(deposits.val, borrows.val)

\* a variant whose slope above the kink is taken from max_borrow_rate alone
borrow_rate_above_from_zero(market, utilization) ==
    LET surplus == safe_sub(utilization, market.optimal_utilization, 0, U128_MAX)
        spread == safe_sub(market.max_borrow_rate, 0, 0, U128_MAX)
        room == safe_sub(SPOT_UTILIZATION_PRECISION, market.optimal_utilization, 0, U128_MAX)
        borrow_rate_slope == mul_then_div(spread.val, SPOT_UTILIZATION_PRECISION, room.val)
        above == mul_then_div(surplus.val, borrow_rate_slope.val, SPOT_UTILIZATION_PRECISION)
    IN  IF ~surplus.ok THEN surplus
        ELSE IF ~spread.ok THEN spread
        ELSE IF ~room.ok THEN room
        ELSE IF ~borrow_rate_slope.ok THEN borrow_rate_slope
        ELSE IF ~above.ok THEN above
        ELSE safe_add(market.optimal_borrow_rate, above.val, 0, U128_MAX)

\* the borrow rate above the kink: utilization > optimal_utilization
\* a variant whose slope divides by optimal_utilization instead of the room
\* above it
borrow_rate_above_over_optimal(market, utilization) ==
    LET surplus == safe_sub(utilization, market.optimal_utilization, 0, U128_MAX)
        spread == safe_sub(market.max_borrow_rate, market.optimal_borrow_rate, 0, U128_MAX)
        borrow_rate_slope ==
            mul_then_div(spread.val, SPOT_UTILIZATION_PRECISION, market.optimal_utilization)
        above == mul_then_div(surplus.val, borrow_rate_slope.val, SPOT_UTILIZATION_PRECISION)
    IN  IF ~surplus.ok THEN surplus
        ELSE IF ~spread.ok THEN spread
        ELSE IF ~borrow_rate_slope.ok THEN borrow_rate_slope
        ELSE IF ~above.ok THEN above
        ELSE safe_add(market.optimal_borrow_rate, above.val, 0, U128_MAX)

borrow_rate_above(market, utilization) ==
    LET surplus == safe_sub(utilization, market.optimal_utilization, 0, U128_MAX)
        spread == safe_sub(market.max_borrow_rate, market.optimal_borrow_rate, 0, U128_MAX)
        room == safe_sub(SPOT_UTILIZATION_PRECISION, market.optimal_utilization, 0, U128_MAX)
        borrow_rate_slope == mul_then_div(spread.val, SPOT_UTILIZATION_PRECISION, room.val)
        above == mul_then_div(surplus.val, borrow_rate_slope.val, SPOT_UTILIZATION_PRECISION)
    IN  IF ~surplus.ok THEN surplus
        ELSE IF ~spread.ok THEN spread
        ELSE IF ~room.ok THEN room
        ELSE IF ~borrow_rate_slope.ok THEN borrow_rate_slope
        ELSE IF ~above.ok THEN above
        ELSE safe_add(market.optimal_borrow_rate, above.val, 0, U128_MAX)

\* the borrow rate at or below the kink
borrow_rate_below(market, utilization) ==
    LET borrow_rate_slope ==
            mul_then_div(market.optimal_borrow_rate, SPOT_UTILIZATION_PRECISION,
                         market.optimal_utilization)
    IN  IF ~borrow_rate_slope.ok THEN borrow_rate_slope
        ELSE mul_then_div(utilization, borrow_rate_slope.val, SPOT_UTILIZATION_PRECISION)

\* the instantaneous borrow rate at a utilization > 0
borrow_rate_of(market, utilization) ==
    IF utilization > market.optimal_utilization
    THEN borrow_rate_above(market, utilization)
    ELSE borrow_rate_below(market, utilization)

\* a variant that lets the failure of the cast through as CastingFailure
time_since_last_update_cast_error(market, now_ts) ==
    LET now == cast(now_ts, 0, U64_MAX)
    IN  IF ~now.ok THEN now
        ELSE safe_sub(now.val, market.last_interest_ts, 0, U64_MAX)

\* now_ts.cast::<u64>().or(Err(UnableToCastUnixTimestamp))?.safe_sub(last_interest_ts)?
time_since_last_update_of_interest(market, now_ts) ==
    LET now == cast(now_ts, 0, U64_MAX)
    IN  IF ~now.ok THEN ErrInt("UnableToCastUnixTimestamp")
        ELSE safe_sub(now.val, market.last_interest_ts, 0, U64_MAX)

\* cumulative.safe_mul(rate)?.safe_div(ONE_YEAR)?.safe_div(SPOT_RATE_PRECISION)?
interest_of(cumulative, rate) ==
    LET yearly == mul_then_div(cumulative, rate, ONE_YEAR)
    IN  IF ~yearly.ok THEN yearly
        ELSE safe_div(yearly.val, SPOT_RATE_PRECISION, 0, U128_MAX)

\* a variant that adds the minimum accrual of 1 to the deposits too
interest_at_utilization_both_floored(market, now_ts, utilization) ==
    LET borrow_rate == borrow_rate_of(market, utilization)
        elapsed == time_since_last_update_of_interest(market, now_ts)
        new_borrow_rate == safe_mul(borrow_rate.val, elapsed.val, 0, U128_MAX)
        new_deposit_rate ==
            mul_then_div(new_borrow_rate.val, utilization, SPOT_UTILIZATION_PRECISION)
        accrued_borrow == interest_of(market.cumulative_borrow_interest, new_borrow_rate.val)
        borrow_interest == safe_add(accrued_borrow.val, 1, 0, U128_MAX)
        accrued_deposit ==
            interest_of(market.cumulative_deposit_interest, new_deposit_rate.val)
        deposit_interest ==
            IF ~accrued_deposit.ok THEN accrued_deposit
            ELSE safe_add(accrued_deposit.val, 1, 0, U128_MAX)
    IN  IF ~borrow_rate.ok THEN ErrInterest(borrow_rate.err)
        ELSE IF ~elapsed.ok THEN ErrInterest(elapsed.err)
        ELSE IF ~new_borrow_rate.ok THEN ErrInterest(new_borrow_rate.err)
        ELSE IF ~new_deposit_rate.ok THEN ErrInterest(new_deposit_rate.err)
        ELSE IF ~accrued_borrow.ok THEN ErrInterest(accrued_borrow.err)
        ELSE IF ~borrow_interest.ok THEN ErrInterest(borrow_interest.err)
        ELSE IF ~deposit_interest.ok THEN ErrInterest(deposit_interest.err)
        ELSE OkInterest([deposits_interest |-> deposit_interest.val,
                         borrows_interest |-> borrow_interest.val])

\* the part of calculate_accumulated_interest after the utilization == 0 return
interest_at_utilization(market, now_ts, utilization) ==
    LET borrow_rate == borrow_rate_of(market, utilization)
        elapsed == time_since_last_update_of_interest(market, now_ts)
        new_borrow_rate == safe_mul(borrow_rate.val, elapsed.val, 0, U128_MAX)
        new_deposit_rate ==
            mul_then_div(new_borrow_rate.val, utilization, SPOT_UTILIZATION_PRECISION)
        accrued_borrow == interest_of(market.cumulative_borrow_interest, new_borrow_rate.val)
        borrow_interest == safe_add(accrued_borrow.val, 1, 0, U128_MAX)
        deposit_interest ==
            interest_of(market.cumulative_deposit_interest, new_deposit_rate.val)
    IN  IF ~borrow_rate.ok THEN ErrInterest(borrow_rate.err)
        ELSE IF ~elapsed.ok THEN ErrInterest(elapsed.err)
        ELSE IF ~new_borrow_rate.ok THEN ErrInterest(new_borrow_rate.err)
        ELSE IF ~new_deposit_rate.ok THEN ErrInterest(new_deposit_rate.err)
        ELSE IF ~accrued_borrow.ok THEN ErrInterest(accrued_borrow.err)
        ELSE IF ~borrow_interest.ok THEN ErrInterest(borrow_interest.err)
        ELSE IF ~deposit_interest.ok THEN ErrInterest(deposit_interest.err)
        ELSE OkInterest([deposits_interest |-> deposit_interest.val,
                         borrows_interest |-> borrow_interest.val])

calculate_accumulated_interest(market, now_ts) ==
    LET utilization == calculate_per_market_utilization(market)
    IN  IF ~utilization.ok THEN ErrInterest(utilization.err)
        ELSE IF utilization.val = 0 THEN OkInterest(NoInterest)
        ELSE interest_at_utilization(market, now_ts, utilization.val)

\* the representative in i128 of a value at most one modulus outside the type
wrapping_i128(x) ==
    IF x > I128_MAX THEN x - (U128_MAX + 1)
    ELSE IF x < I128_MIN THEN x + (U128_MAX + 1)
    ELSE x

\* 10 * x modulo the width of i128, by doubling
wrapping_mul_10_i128(x) ==
    LET x2 == wrapping_i128(x + x)
        x4 == wrapping_i128(x2 + x2)
        x8 == wrapping_i128(x4 + x4)
    IN  wrapping_i128(x8 + x2)

\* 10i128.wrapping_pow(exp)
RECURSIVE wrapping_pow10_i128(_)
wrapping_pow10_i128(exp) ==
    IF exp = 0 THEN 1
    ELSE LET lower == wrapping_pow10_i128(exp - 1)
         IN  wrapping_mul_10_i128(lower)

\* 10i128.checked_pow(exp)
RECURSIVE checked_pow10_i128(_)
checked_pow10_i128(exp) ==
    IF exp = 0 THEN Some(1)
    ELSE LET lower == checked_pow10_i128(exp - 1)
         IN  IF ~lower.some THEN None ELSE checked_mul(lower.v, 10, I128_MIN, I128_MAX)

\* 10i128.pow(decimals): the operator is unchecked, so a power beyond i128
\* panics in a build with overflow checks and wraps in a build without
pow10_i128(exp, overflow_checks) ==
    LET checked == checked_pow10_i128(exp)
    IN  IF checked.some THEN Ok(checked.v)
        ELSE IF overflow_checks THEN ErrInt("panic")
        ELSE Ok(wrapping_pow10_i128(exp))

\* i128::abs, unchecked in the same way
abs_i128(x, overflow_checks) ==
    IF x # I128_MIN THEN Ok(Abs(x))
    ELSE IF overflow_checks THEN ErrInt("panic")
    ELSE Ok(I128_MIN)

\* the price get_strict_value applies once both prices are validated
strict_price(amount, oracle_price_data, oracle_price_twap) ==
    IF amount > 0
    THEN IF oracle_price_data.price < oracle_price_twap
         THEN oracle_price_data.price ELSE oracle_price_twap
    ELSE IF oracle_price_data.price > oracle_price_twap
         THEN oracle_price_data.price ELSE oracle_price_twap

get_strict_value(amount, decimals, oracle_price_data, oracle_price_twap, overflow_checks) ==
    IF amount = 0 THEN Ok(0)
    ELSE LET precision == pow10_i128(decimals, overflow_checks)
         IN  IF ~precision.ok THEN precision
             ELSE IF ~(oracle_price_twap > 0 /\ oracle_price_data.price > 0)
                  THEN ErrInt("InvalidOracle")
             ELSE LET price == cast(strict_price(amount, oracle_price_data, oracle_price_twap),
                                    I128_MIN, I128_MAX)
                      token_value ==
                            IF price.ok THEN safe_mul(amount, price.val, I128_MIN, I128_MAX)
                            ELSE price
                  IN  IF ~token_value.ok THEN token_value
                      ELSE IF token_value.val < 0
                           THEN safe_floor_div(token_value.val, precision.val,
                                               I128_MIN, I128_MAX)
                      ELSE safe_div(token_value.val, precision.val, I128_MIN, I128_MAX)

get_token_value(amount, decimals, oracle_price, overflow_checks) ==
    IF amount = 0 THEN Ok(0)
    ELSE LET precision == pow10_i128(decimals, overflow_checks)
             price == cast(oracle_price, I128_MIN, I128_MAX)
             token_value_using_oracle ==
                    IF price.ok THEN safe_mul(amount, price.val, I128_MIN, I128_MAX)
                    ELSE price
         IN  IF ~precision.ok THEN precision
             ELSE IF ~token_value_using_oracle.ok THEN token_value_using_oracle
             ELSE IF token_value_using_oracle.val < 0
                  THEN LET divisor == abs_i128(precision.val, overflow_checks)
                       IN  IF ~divisor.ok THEN divisor
                           ELSE safe_floor_div(token_value_using_oracle.val, divisor.val,
                                               I128_MIN, I128_MAX)
             ELSE safe_div(token_value_using_oracle.val, precision.val, I128_MIN, I128_MAX)

(***************************************************************************)
(* u128 at the width of the machine. A year of interest at 100% is a rate   *)
(* of ONE_YEAR * SPOT_RATE_PRECISION, beyond the scaled u128: where a pool  *)
(* is followed over such a time, a u128 is a sequence of digits in base     *)
(* 10^4, least significant first and without leading zeros, and the         *)
(* operations of math/safe_math.rs fail at 2^128.                           *)
(***************************************************************************)
WideBase == Pow10(4)

\* the digits of a natural number
RECURSIVE Wide(_)
Wide(n) == IF n = 0 THEN << >> ELSE <<n % WideBase>> \o Wide(n \div WideBase)

RECURSIVE Trim(_)
Trim(a) ==
    IF a = << >> THEN a
    ELSE IF a[Len(a)] = 0 THEN Trim(SubSeq(a, 1, Len(a) - 1))
    ELSE a

DigitAt(a, i) == IF i <= Len(a) THEN a[i] ELSE 0

RECURSIVE WideAddFrom(_, _, _, _)
WideAddFrom(a, b, i, carry) ==
    IF i > Len(a) /\ i > Len(b) THEN (IF carry = 0 THEN << >> ELSE <<carry>>)
    ELSE LET sum == DigitAt(a, i) + DigitAt(b, i) + carry
         IN  <<sum % WideBase>> \o WideAddFrom(a, b, i + 1, sum \div WideBase)

WideAdd(a, b) == WideAddFrom(a, b, 1, 0)

RECURSIVE WideLessFrom(_, _, _)
WideLessFrom(a, b, i) ==
    IF i = 0 THEN FALSE
    ELSE IF a[i] # b[i] THEN a[i] < b[i]
    ELSE WideLessFrom(a, b, i - 1)

WideLess(a, b) == IF Len(a) # Len(b) THEN Len(a) < Len(b) ELSE WideLessFrom(a, b, Len(a))

\* a - b for a >= b
RECURSIVE WideSubFrom(_, _, _, _)
WideSubFrom(a, b, i, borrow) ==
    IF i > Len(a) THEN << >>
    ELSE LET difference == DigitAt(a, i) - DigitAt(b, i) - borrow
         IN  <<difference % WideBase>>
                \o WideSubFrom(a, b, i + 1, IF difference < 0 THEN 1 ELSE 0)

WideSub(a, b) == Trim(WideSubFrom(a, b, 1, 0))

\* a * k for one digit k
RECURSIVE WideMulDigitFrom(_, _, _, _)
WideMulDigitFrom(a, k, i, carry) ==
    IF i > Len(a) THEN (IF carry = 0 THEN << >> ELSE <<carry>>)
    ELSE LET product == a[i] * k + carry
         IN  <<product % WideBase>> \o WideMulDigitFrom(a, k, i + 1, product \div WideBase)

WideMulDigit(a, k) == Trim(WideMulDigitFrom(a, k, 1, 0))

RECURSIVE WideMul(_, _)
WideMul(a, b) ==
    IF a = << >> \/ b = << >> THEN << >>
    ELSE LET higher == WideMul(a, Tail(b))
         IN  WideAdd(WideMulDigit(a, b[1]),
                     IF higher = << >> THEN << >> ELSE <<0>> \o higher)

\* the largest digit d in lo..hi with b * d <= a
RECURSIVE QuotientDigit(_, _, _, _)
QuotientDigit(a, b, lo, hi) ==
    IF lo = hi THEN lo
    ELSE LET mid == (lo + hi + 1) \div 2
         IN  IF WideLess(a, WideMulDigit(b, mid)) THEN QuotientDigit(a, b, lo, mid - 1)
             ELSE QuotientDigit(a, b, mid, hi)

\* the quotient and the remainder of the digits i.. of a by b # 0
RECURSIVE WideDivRemFrom(_, _, _)
WideDivRemFrom(a, b, i) ==
    IF i > Len(a) THEN [q |-> << >>, r |-> << >>]
    ELSE LET high == WideDivRemFrom(a, b, i + 1)
             dividend == Trim(<<a[i]>> \o high.r)
             digit == QuotientDigit(dividend, b, 0, WideBase - 1)
         IN  [q |-> Trim(<<digit>> \o high.q),
              r |-> WideSub(dividend, WideMulDigit(b, digit))]

WideDivRem(a, b) == WideDivRemFrom(a, b, 1)

\* 2^128
U128Limit == <<1456, 6821, 4317, 4607, 6337, 4634, 938, 6692, 2823, 340>>

\* the operations of SafeMath on u128 at full width
u128_safe_add(a, b) ==
    LET sum == WideAdd(a, b)
    IN  IF WideLess(sum, U128Limit) THEN Ok(sum) ELSE ErrInt("MathError")

u128_safe_sub(a, b) == IF WideLess(a, b) THEN ErrInt("MathError") ELSE Ok(WideSub(a, b))

u128_safe_mul(a, b) ==
    LET product == WideMul(a, b)
    IN  IF WideLess(product, U128Limit) THEN Ok(product) ELSE ErrInt("MathError")

u128_safe_div(a, b) == IF b = << >> THEN ErrInt("MathError") ELSE Ok(WideDivRem(a, b).q)

u128_safe_ceil_div(a, b) ==
    IF b = << >> THEN ErrInt("MathError")
    ELSE LET division == WideDivRem(a, b)
         IN  IF division.r # << >> THEN u128_safe_add(division.q, Wide(1))
             ELSE Ok(division.q)

\* a.safe_mul(b)?.safe_div(c)?
u128_mul_then_div(a, b, c) ==
    LET product == u128_safe_mul(a, b)
    IN  IF ~product.ok THEN product ELSE u128_safe_div(product.val, c)

\* a.safe_mul(b)?.safe_ceil_div(c)?
u128_mul_then_ceil_div(a, b, c) ==
    LET product == u128_safe_mul(a, b)
    IN  IF ~product.ok THEN product ELSE u128_safe_ceil_div(product.val, c)

\* 10_u128.pow(exp) for exp <= 19
RECURSIVE u128_pow10(_)
u128_pow10(exp) == IF exp = 0 THEN Wide(1) ELSE WideMulDigit(u128_pow10(exp - 1), 10)

\* 10_u128.pow(19_u32.safe_sub(market.decimals)?)
u128_precision_downtick(market) ==
    LET exponent == safe_sub(19, market.decimals, 0, U64_MAX)
    IN  IF ~exponent.ok THEN exponent ELSE Ok(u128_pow10(exponent.val))

\* get_amount_of_tokens at full width
u128_get_amount_of_tokens(balance, market, balance_type) ==
    LET downtick == u128_precision_downtick(market)
        cumulative_interest_deposit_borrow ==
            IF balance_type = "Deposits" THEN Wide(market.cumulative_deposit_interest)
            ELSE Wide(market.cumulative_borrow_interest)
    IN  IF ~downtick.ok THEN downtick
        ELSE IF balance_type = "Deposits"
        THEN u128_mul_then_div(Wide(balance), cumulative_interest_deposit_borrow, downtick.val)
        ELSE u128_mul_then_ceil_div(Wide(balance), cumulative_interest_deposit_borrow,
                                    downtick.val)

\* calculate_utilization at full width
u128_calculate_utilization(deposit_token_account, borrow_token_account) ==
    LET product == u128_safe_mul(borrow_token_account, Wide(SPOT_UTILIZATION_PRECISION))
        fallback == IF deposit_token_account = << >> /\ borrow_token_account = << >>
                    THEN Wide(ZeroUtilizationLiteral)
                    ELSE Wide(SPOT_UTILIZATION_PRECISION)
    IN  IF ~product.ok THEN product
        ELSE IF deposit_token_account = << >> THEN Ok(fallback)
        ELSE Ok(WideDivRem(product.val, deposit_token_account).q)

\* calculate_per_market_utilization at full width
u128_calculate_per_market_utilization(market) ==
    LET deposits == u128_get_amount_of_tokens(market.deposit_balance, market, "Deposits")
        borrows == u128_get_amount_of_tokens(market.borrow_balance, market, "Borrows")
    IN  IF ~deposits.ok THEN deposits
        ELSE IF ~borrows.ok THEN borrows
        ELSE u128_calculate_utilization(deposits.val, borrows.val)

\* the borrow rate above the kink at full width
u128_borrow_rate_above(market, utilization) ==
    LET surplus == u128_safe_sub(utilization, Wide(market.optimal_utilization))
        spread == u128_safe_sub(Wide(market.max_borrow_rate), Wide(market.optimal_borrow_rate))
        room == u128_safe_sub(Wide(SPOT_UTILIZATION_PRECISION),
                              Wide(market.optimal_utilization))
        borrow_rate_slope ==
            u128_mul_then_div(spread.val, Wide(SPOT_UTILIZATION_PRECISION), room.val)
        above == u128_mul_then_div(surplus.val, borrow_rate_slope.val,
                                   Wide(SPOT_UTILIZATION_PRECISION))
    IN  IF ~surplus.ok THEN surplus
        ELSE IF ~spread.ok THEN spread
        ELSE IF ~room.ok THEN room
        ELSE IF ~borrow_rate_slope.ok THEN borrow_rate_slope
        ELSE IF ~above.ok THEN above
        ELSE u128_safe_add(Wide(market.optimal_borrow_rate), above.val)

\* the borrow rate at or below the kink at full width
u128_borrow_rate_below(market, utilization) ==
    LET borrow_rate_slope ==
            u128_mul_then_div(Wide(market.optimal_borrow_rate),
                              Wide(SPOT_UTILIZATION_PRECISION),
                              Wide(market.optimal_utilization))
    IN  IF ~borrow_rate_slope.ok THEN borrow_rate_slope
        ELSE u128_mul_then_div(utilization, borrow_rate_slope.val,
                               Wide(SPOT_UTILIZATION_PRECISION))

u128_borrow_rate_of(market, utilization) ==
    IF WideLess(Wide(market.optimal_utilization), utilization)
    THEN u128_borrow_rate_above(market, utilization)
    ELSE u128_borrow_rate_below(market, utilization)

\* cumulative.safe_mul(rate)?.safe_div(ONE_YEAR)?.safe_div(SPOT_RATE_PRECISION)?
u128_interest_of(cumulative, rate) ==
    LET yearly == u128_mul_then_div(cumulative, rate, Wide(ONE_YEAR))
    IN  IF ~yearly.ok THEN yearly
        ELSE u128_safe_div(yearly.val, Wide(SPOT_RATE_PRECISION))

\* the part of calculate_accumulated_interest after the utilization == 0
\* return, at full width
u128_interest_at_utilization(market, now_ts, utilization) ==
    LET borrow_rate == u128_borrow_rate_of(market, utilization)
        elapsed == time_since_last_update_of_interest(market, now_ts)
        new_borrow_rate == u128_safe_mul(borrow_rate.val, Wide(elapsed.val))
        new_deposit_rate ==
            u128_mul_then_div(new_borrow_rate.val, utilization,
                              Wide(SPOT_UTILIZATION_PRECISION))
        accrued_borrow ==
            u128_interest_of(Wide(market.cumulative_borrow_interest), new_borrow_rate.val)
        borrow_interest == u128_safe_add(accrued_borrow.val, Wide(1))
        deposit_interest ==
            u128_interest_of(Wide(market.cumulative_deposit_interest), new_deposit_rate.val)
    IN  IF ~borrow_rate.ok THEN ErrInterest(borrow_rate.err)
        ELSE IF ~elapsed.ok THEN ErrInterest(elapsed.err)
        ELSE IF ~new_borrow_rate.ok THEN ErrInterest(new_borrow_rate.err)
        ELSE IF ~new_deposit_rate.ok THEN ErrInterest(new_deposit_rate.err)
        ELSE IF ~accrued_borrow.ok THEN ErrInterest(accrued_borrow.err)
        ELSE IF ~borrow_interest.ok THEN ErrInterest(borrow_interest.err)
        ELSE IF ~deposit_interest.ok THEN ErrInterest(deposit_interest.err)
        ELSE OkInterest([deposits_interest |-> deposit_interest.val,
                         borrows_interest |-> borrow_interest.val])

\* calculate_accumulated_interest at full width: the interests are digits
u128_calculate_accumulated_interest(market, now_ts) ==
    LET utilization == u128_calculate_per_market_utilization(market)
    IN  IF ~utilization.ok THEN ErrInterest(utilization.err)
        ELSE IF utilization.val = << >>
        THEN OkInterest([deposits_interest |-> << >>, borrows_interest |-> << >>])
        ELSE u128_interest_at_utilization(market, now_ts, utilization.val)

\* balance.safe_mul(interest)?.safe_div(precision_downtick)?, at full width:
\* the interest and the result are digits
get_interest(balance, market, interest) ==
    LET downtick == u128_precision_downtick(market)
    IN  IF ~downtick.ok THEN downtick
        ELSE u128_mul_then_div(Wide(balance), interest, downtick.val)

(***************************************************************************)
(* state/enums.rs                                                          *)
(***************************************************************************)
OracleValidity ==
    {"Invalid", "Volatile", "Uncertain", "StaleForMargin", "InsufficientDataPoints", "Valid"}

Actions ==
    {"PnLSettlement", "OrderAdded", "FillOrder", "Liquidate", "MarginCalculation", "UpdateTWAP"}

MarketStatus ==
    {"Initialized", "Active", "FillsPaused", "WithdrawPaused", "ReduceOnly", "Settlement",
     "Delisted"}

\* state/market.rs, Market::are_fills_enabled: the first matches! is a statement
\* whose value is dropped; the value returned is that of the second
are_fills_enabled(status) ==
    LET discarded == status \in {"Active", "ReduceOnly", "WithdrawPaused"}
    IN  ~(status = "FillsPaused")

PositionDirection == {"Long", "Short", "TwoWay"}

(***************************************************************************)
(* math/oracle_validity.rs                                                 *)
(***************************************************************************)
\* a variant in which Liquidate also tolerates InsufficientDataPoints
is_oracle_valid_for_action_lenient(action, validity) ==
    OkBool(
        IF ~action.some THEN validity = "Valid"
        ELSE CASE action.v = "FillOrder" -> validity = "Valid"
               [] action.v = "MarginCalculation" ->
                    validity \notin {"Invalid", "Volatile", "Uncertain", "StaleForMargin",
                                     "InsufficientDataPoints"}
               [] action.v = "OrderAdded" ->
                    validity \notin {"Invalid", "Volatile", "Uncertain"}
               [] action.v = "PnLSettlement" ->
                    validity \notin {"Invalid", "Volatile", "Uncertain"}
               [] action.v = "UpdateTWAP" ->
                    validity \notin {"Invalid", "Volatile", "Uncertain",
                                     "InsufficientDataPoints"}
               [] action.v = "Liquidate" ->
                    validity \notin {"Invalid", "Volatile", "Uncertain"})

\* action is an Option<Actions>: [some |-> TRUE, v |-> a] or NoAction
is_oracle_valid_for_action(action, validity) ==
    OkBool(
        IF ~action.some THEN validity = "Valid"
        ELSE CASE action.v = "FillOrder" -> validity = "Valid"
               [] action.v = "MarginCalculation" ->
                    validity \notin {"Invalid", "Volatile", "Uncertain", "StaleForMargin",
                                     "InsufficientDataPoints"}
               [] action.v = "OrderAdded" ->
                    validity \notin {"Invalid", "Volatile", "Uncertain"}
               [] action.v = "PnLSettlement" ->
                    validity \notin {"Invalid", "Volatile", "Uncertain"}
               [] action.v = "UpdateTWAP" ->
                    validity \notin {"Invalid", "Volatile", "Uncertain",
                                     "InsufficientDataPoints"}
               [] action.v = "Liquidate" ->
                    validity \notin {"Invalid", "Volatile", "Uncertain",
                                     "InsufficientDataPoints"})

\* (oracle_price.max(last_oracle_twap)).safe_div(last_oracle_twap.min(oracle_price).max(1))
volatility_ratio(oracle_price, last_oracle_twap) ==
    safe_div(Max(oracle_price, last_oracle_twap),
             Max(Min(last_oracle_twap, oracle_price), 1), I64_MIN, I64_MAX)

\* max(1, oracle_conf).safe_mul(BID_ASK_SPREAD_PRECISION)?.safe_div(oracle_price.cast()?)
confidence_as_pct_of_price(oracle_conf, oracle_price) ==
    LET product == safe_mul(Max(1, oracle_conf), BID_ASK_SPREAD_PRECISION, 0, U64_MAX)
        divisor == cast(oracle_price, 0, U64_MAX)
    IN  IF ~product.ok THEN product
        ELSE IF ~divisor.ok THEN divisor
        ELSE safe_div(product.val, divisor.val, 0, U64_MAX)

\* the if / else-if chain that ends oracle_validity
classification(is_oracle_price_negative, is_oracle_price_too_volatile, is_confidence_too_wide, is_oracle_price_stale_for_margin, has_sufficient_data_points) ==
    IF is_oracle_price_negative THEN "Invalid"
    ELSE IF is_oracle_price_too_volatile THEN "Volatile"
    ELSE IF is_confidence_too_wide THEN "Uncertain"
    ELSE IF is_oracle_price_stale_for_margin THEN "StaleForMargin"
    ELSE IF ~has_sufficient_data_points THEN "InsufficientDataPoints"
    ELSE "Valid"

\* a variant that tests staleness before volatility and confidence
oracle_validity_stale_first(last_oracle_twap, oracle_price_data, oracle_validity_guard) ==
    LET oracle_price == oracle_price_data.price
        is_oracle_price_negative == oracle_price <= 0
        ratio == volatility_ratio(oracle_price, last_oracle_twap)
        is_oracle_price_too_volatile == ratio.val > oracle_validity_guard.max_volatility_ratio
        pct == confidence_as_pct_of_price(oracle_price_data.confidence, oracle_price)
        is_confidence_too_wide ==
            pct.val > oracle_validity_guard.confidence_interval_max_accepted_divergence
        is_oracle_price_stale_for_margin ==
            oracle_price_data.delay > oracle_validity_guard.slots_before_stale_for_margin
    IN  IF is_oracle_price_negative THEN ErrEnum("OracleNegativeError")
        ELSE IF is_oracle_price_stale_for_margin THEN ErrEnum("OraclePriceStaleForMargin")
        ELSE IF ~ratio.ok THEN ErrEnum(ratio.err)
        ELSE IF is_oracle_price_too_volatile THEN ErrEnum("OracleTooVolatile")
        ELSE IF ~pct.ok THEN ErrEnum(pct.err)
        ELSE IF is_confidence_too_wide THEN ErrEnum("OracleConfidenceTooWide")
        ELSE OkEnum(classification(is_oracle_price_negative, is_oracle_price_too_volatile,
                                   is_confidence_too_wide, is_oracle_price_stale_for_margin,
                                   oracle_price_data.has_sufficient_data_points))

oracle_validity(last_oracle_twap, oracle_price_data, oracle_validity_guard) ==
    LET oracle_price == oracle_price_data.price
        is_oracle_price_negative == oracle_price <= 0
        ratio == volatility_ratio(oracle_price, last_oracle_twap)
        is_oracle_price_too_volatile == ratio.val > oracle_validity_guard.max_volatility_ratio
        pct == confidence_as_pct_of_price(oracle_price_data.confidence, oracle_price)
        is_confidence_too_wide ==
            pct.val > oracle_validity_guard.confidence_interval_max_accepted_divergence
        is_oracle_price_stale_for_margin ==
            oracle_price_data.delay > oracle_validity_guard.slots_before_stale_for_margin
    IN  IF is_oracle_price_negative THEN ErrEnum("OracleNegativeError")
        ELSE IF ~ratio.ok THEN ErrEnum(ratio.err)
        ELSE IF is_oracle_price_too_volatile THEN ErrEnum("OracleTooVolatile")
        ELSE IF ~pct.ok THEN ErrEnum(pct.err)
        ELSE IF is_confidence_too_wide THEN ErrEnum("OracleConfidenceTooWide")
        ELSE IF is_oracle_price_stale_for_margin THEN ErrEnum("OraclePriceStaleForMargin")
        ELSE OkEnum(classification(is_oracle_price_negative, is_oracle_price_too_volatile,
                                   is_confidence_too_wide, is_oracle_price_stale_for_margin,
                                   oracle_price_data.has_sufficient_data_points))

is_oracle_mark_too_divergent(price_spread_pct, oracle_mark_guard_rails) ==
    LET max_divergence ==
            Max(oracle_mark_guard_rails.oracle_mark_pct_divergence,
                PERCENTAGE_PRECISION_U64 \div 10)
    IN  OkBool(Abs(price_spread_pct) > max_divergence)

calculate_oracle_twap_5min_mark_spread_pct(last_acceptable_price, historical_oracle_data) ==
    LET price == IF last_acceptable_price.some THEN last_acceptable_price.v ELSE 0
        price_i64 == cast(price, I64_MIN, I64_MAX)
        price_spread ==
            safe_sub(price_i64.val, historical_oracle_data.last_oracle_twap_5min,
                     I64_MIN, I64_MAX)
        scaled == safe_mul(price_spread.val, BID_ASK_SPREAD_PRECISION_I128, I128_MIN, I128_MAX)
        divisor == cast(price, I128_MIN, I128_MAX)
        quotient == safe_div(scaled.val, divisor.val, I128_MIN, I128_MAX)
    IN  IF ~price_i64.ok THEN price_i64
        ELSE IF ~price_spread.ok THEN price_spread
        ELSE IF ~scaled.ok THEN scaled
        ELSE IF ~divisor.ok THEN divisor
        ELSE IF ~quotient.ok THEN quotient
        ELSE cast(quotient.val, I64_MIN, I64_MAX)

NoStatus ==
    [oracle_mark_spread_pct |-> 0, is_mark_price_too_divergent |-> FALSE,
     oracle_validity |-> "NoValue"]

OkStatus(st) == [ok |-> TRUE, status |-> st, err |-> NoError]
ErrStatus(e) == [ok |-> FALSE, status |-> NoStatus, err |-> e]

get_oracle_status(oracle_price_data, guard_rails, historical_oracle_data, last_acceptable_price) ==
    LET validity ==
            oracle_validity(historical_oracle_data.last_oracle_twap, oracle_price_data,
                            guard_rails.validity)
        oracle_mark_spread_pct ==
            calculate_oracle_twap_5min_mark_spread_pct(last_acceptable_price,
                                                       historical_oracle_data)
        too_divergent ==
            is_oracle_mark_too_divergent(oracle_mark_spread_pct.val,
                                         guard_rails.price_divergence_guard_rails)
    IN  IF ~validity.ok THEN ErrStatus(validity.err)
        ELSE IF ~oracle_mark_spread_pct.ok THEN ErrStatus(oracle_mark_spread_pct.err)
        ELSE IF ~too_divergent.ok THEN ErrStatus(too_divergent.err)
        ELSE OkStatus([oracle_mark_spread_pct |-> oracle_mark_spread_pct.val,
                       is_mark_price_too_divergent |-> too_divergent.flag,
                       oracle_validity |-> validity.tag])

block_action(market_status, oracle_price_data, guard_rails, last_acceptable_price, historical_oracle_data) ==
    LET oracle_status ==
            get_oracle_status(oracle_price_data, guard_rails, historical_oracle_data,
                              last_acceptable_price)
        is_oracle_valid ==
            is_oracle_valid_for_action(Some("FillOrder"), oracle_status.status.oracle_validity)
        fills_paused == market_status = "FillsPaused"
    IN  IF ~oracle_status.ok THEN ErrBool(oracle_status.err)
        ELSE IF ~is_oracle_valid.ok THEN ErrBool(is_oracle_valid.err)
        ELSE OkBool(\/ ~is_oracle_valid.flag
                    \/ oracle_status.status.is_mark_price_too_divergent
                    \/ fills_paused)

(***************************************************************************)
(* math/price.rs                                                           *)
(***************************************************************************)
\* the rounding shared by standardize_price (u64) and standardize_price_i64,
\* on the type with range lo..hi
standardize(price, tick_size, position_direction, lo, hi) ==
    LET remainder == checked_rem_euclid(price, tick_size, lo, hi)
        up == safe_sub(tick_size, remainder.v, lo, hi)
    IN  IF price = 0 THEN Ok(0)
        ELSE IF ~remainder.some THEN ErrInt("MathError")
        ELSE IF remainder.v = 0 THEN Ok(price)
        ELSE CASE position_direction = "Long" -> safe_sub(price, remainder.v, lo, hi)
               [] position_direction = "Short" ->
                    IF ~up.ok THEN up ELSE safe_add(price, up.val, lo, hi)
               [] position_direction = "TwoWay" -> safe_add(price, tick_size, lo, hi)

\* a variant whose Short branch adds the remainder instead of its complement
standardize_price_short_adds_remainder(price, tick_size, position_direction) ==
    IF position_direction = "Short" /\ price # 0 /\ tick_size # 0
    THEN safe_add(price, (price % tick_size), 0, U64_MAX)
    ELSE standardize(price, tick_size, position_direction, 0, U64_MAX)

standardize_price(price, tick_size, position_direction) ==
    standardize(price, tick_size, position_direction, 0, U64_MAX)

standardize_price_i64(price, tick_size, position_direction) ==
    standardize(price, tick_size, position_direction, I64_MIN, I64_MAX)

(***************************************************************************)
(* math/twap.rs                                                            *)
(***************************************************************************)
\* a variant without the two early returns for a zero weight
weighted_average_always_blending(data_point_1, data_point_2, weightage_1, weightage_2) ==
    LET weights == safe_add(weightage_1, weightage_2, I64_MIN, I64_MAX)
        denominator == cast(weights.val, I128_MIN, I128_MAX)
        previous_twap == safe_mul(data_point_1, weightage_1, I128_MIN, I128_MAX)
        weighted_price == safe_mul(data_point_2, weightage_2, I128_MIN, I128_MAX)
        x == IF weightage_2 > 1
             THEN IF weighted_price.val < previous_twap.val THEN -1
                  ELSE IF weighted_price.val > previous_twap.val THEN 1
                  ELSE 0
             ELSE 0
        total == safe_add(previous_twap.val, weighted_price.val, I128_MIN, I128_MAX)
        quotient == safe_div(total.val, denominator.val, I128_MIN, I128_MAX)
        twap == cast(quotient.val, I64_MIN, I64_MAX)
    IN  IF ~weights.ok THEN weights
        ELSE IF ~denominator.ok THEN denominator
        ELSE IF ~previous_twap.ok THEN previous_twap
        ELSE IF ~weighted_price.ok THEN weighted_price
        ELSE IF ~total.ok THEN total
        ELSE IF ~quotient.ok THEN quotient
        ELSE IF ~twap.ok THEN twap
        ELSE safe_add(twap.val, x, I64_MIN, I64_MAX)

weighted_average(data_point_1, data_point_2, weightage_1, weightage_2) ==
    LET weights == safe_add(weightage_1, weightage_2, I64_MIN, I64_MAX)
        denominator == cast(weights.val, I128_MIN, I128_MAX)
        previous_twap == safe_mul(data_point_1, weightage_1, I128_MIN, I128_MAX)
        weighted_price == safe_mul(data_point_2, weightage_2, I128_MIN, I128_MAX)
        x == IF weightage_2 > 1
             THEN IF weighted_price.val < previous_twap.val THEN -1
                  ELSE IF weighted_price.val > previous_twap.val THEN 1
                  ELSE 0
             ELSE 0
        total == safe_add(previous_twap.val, weighted_price.val, I128_MIN, I128_MAX)
        quotient == safe_div(total.val, denominator.val, I128_MIN, I128_MAX)
        twap == cast(quotient.val, I64_MIN, I64_MAX)
    IN  IF ~weights.ok THEN weights
        ELSE IF ~denominator.ok THEN denominator
        ELSE IF ~previous_twap.ok THEN previous_twap
        ELSE IF ~weighted_price.ok THEN weighted_price
        ELSE IF weightage_1 = 0 THEN Ok(data_point_2)
        ELSE IF weightage_2 = 0 THEN Ok(data_point_1)
        ELSE IF ~total.ok THEN total
        ELSE IF ~quotient.ok THEN quotient
        ELSE IF ~twap.ok THEN twap
        ELSE safe_add(twap.val, x, I64_MIN, I64_MAX)

calculate_twap(curr_price, curr_ts, last_twap, last_ts_of_twap, period_for_twap_calc) ==
    LET elapsed == safe_sub(curr_ts, last_ts_of_twap, I64_MIN, I64_MAX)
        backwards == Max(0, elapsed.val)
        remaining == safe_sub(period_for_twap_calc, backwards, I64_MIN, I64_MAX)
        forwards == Max(1, remaining.val)
    IN  IF ~elapsed.ok THEN elapsed
        ELSE IF ~remaining.ok THEN remaining
        ELSE weighted_average(curr_price, last_twap, backwards, forwards)

(***************************************************************************)
(* state/traits.rs, SpotBalance: implemented by Position                   *)
(* (state/user_position.rs, scaled_balance: u64) and by PoolBalance        *)
(* (state/market.rs, scaled_balance: u128). A call returns its result and  *)
(* the balance it leaves in the object.                                    *)
(***************************************************************************)
SpotBalanceImplementors == {"Position", "PoolBalance"}

OkBalance(b) == [ok |-> TRUE, scaled_balance |-> b, err |-> NoError]
ErrBalance(e, b) == [ok |-> FALSE, scaled_balance |-> b, err |-> e]

\* impl SpotBalance for Position
position_increase_balance(scaled_balance, delta) ==
    LET narrowed == cast(delta, 0, U64_MAX)
        sum == safe_add(scaled_balance, narrowed.val, 0, U64_MAX)
    IN  IF ~narrowed.ok THEN ErrBalance(narrowed.err, scaled_balance)
        ELSE IF ~sum.ok THEN ErrBalance(sum.err, scaled_balance)
        ELSE OkBalance(sum.val)

position_decrease_balance(scaled_balance, delta) ==
    LET narrowed == cast(delta, 0, U64_MAX)
        difference == safe_sub(scaled_balance, narrowed.val, 0, U64_MAX)
    IN  IF ~narrowed.ok THEN ErrBalance(narrowed.err, scaled_balance)
        ELSE IF ~difference.ok THEN ErrBalance(difference.err, scaled_balance)
        ELSE OkBalance(difference.val)

\* impl SpotBalance for PoolBalance: `+=` and `-=` are unchecked, so a result
\* outside u128 panics in a build with overflow checks and wraps in a build
\* without
pool_increase_balance(scaled_balance, delta, overflow_checks) ==
    IF delta <= U128_MAX - scaled_balance THEN OkBalance(scaled_balance + delta)
    ELSE IF overflow_checks THEN ErrBalance("panic", scaled_balance)
    ELSE OkBalance(scaled_balance - (U128_MAX + 1 - delta))

pool_decrease_balance(scaled_balance, delta, overflow_checks) ==
    IF delta <= scaled_balance THEN OkBalance(scaled_balance - delta)
    ELSE IF overflow_checks THEN ErrBalance("panic", scaled_balance)
    ELSE OkBalance(scaled_balance - delta + U128_MAX + 1)

increase_balance(implementor, scaled_balance, delta, overflow_checks) ==
    IF implementor = "Position" THEN position_increase_balance(scaled_balance, delta)
    ELSE pool_increase_balance(scaled_balance, delta, overflow_checks)

decrease_balance(implementor, scaled_balance, delta, overflow_checks) ==
    IF implementor = "Position" THEN position_decrease_balance(scaled_balance, delta)
    ELSE pool_decrease_balance(scaled_balance, delta, overflow_checks)

(***************************************************************************)
(* state/order.rs                                                          *)
(***************************************************************************)
\* Order::get_unfilled_base_amount; existing_position is an Option<i64>
get_unfilled_base_amount(order, existing_position, num_lots_to_fill) ==
    LET unfilled_base_amt ==
            safe_sub(order.base_asset_amount, order.base_asset_filled, 0, U64_MAX)
        reducible == Min(unfilled_base_amt.val, Abs(existing_position.v))
    IN  IF ~unfilled_base_amt.ok THEN unfilled_base_amt
        ELSE IF ~existing_position.some THEN Ok(unfilled_base_amt.val)
        ELSE IF ~order.reduce_only \/ order.post_only THEN Ok(unfilled_base_amt.val)
        ELSE IF existing_position.v = 0 THEN Ok(0)
        ELSE IF order.fill_or_kill THEN Ok(0)
        ELSE IF order.immediate_or_cancel
             THEN IF order.base_asset_filled < num_lots_to_fill
                  THEN ErrInt("IOCOrderCancelledDueToNumBaseLotsNotFilled")
                  ELSE Ok(num_lots_to_fill)
        ELSE IF order.pos_direction = "Long"
             THEN IF existing_position.v > 0 THEN Ok(0) ELSE Ok(reducible)
        ELSE IF order.pos_direction = "Short"
             THEN IF existing_position.v < 0 THEN Ok(0) ELSE Ok(reducible)
        ELSE Ok(reducible)

(***************************************************************************)
(* Input domains                                                           *)
(***************************************************************************)
\* u128 token amounts: small values and the values around the overflow of
\* amount * SPOT_UTILIZATION_PRECISION
TokenAmounts ==
    (0 .. MaxSmall)
        \cup { U128_MAX \div SPOT_UTILIZATION_PRECISION - 1,
               U128_MAX \div SPOT_UTILIZATION_PRECISION,
               U128_MAX \div SPOT_UTILIZATION_PRECISION + 1,
               U128_MAX }

\* market decimals: precision_downtick 100, 10, 1 and the failing 19 - 20
Decimals == 17 .. 20

Balances == 0 .. MaxSmall

CumulativeInterests == {0, 1, 10, 100}

Markets ==
    [ decimals : Decimals,
      deposit_balance : Balances,
      borrow_balance : Balances,
      cumulative_deposit_interest : CumulativeInterests,
      cumulative_borrow_interest : CumulativeInterests,
      optimal_utilization : {0, 800000},
      optimal_borrow_rate : {1000},
      max_borrow_rate : {2000},
      last_interest_ts : {0, 10} ]

Timestamps == {-1, 0, 10, ONE_YEAR}

\* markets on the curve optimal_utilization = 80%, optimal_borrow_rate = 10%,
\* max_borrow_rate = 100%: 10 tokens deposited, 1 to 10 tokens borrowed, and
\* cumulative interests of 10^7 and 2 * 10^7 at 12 decimals
CurveMarkets ==
    [ decimals : {12},
      deposit_balance : {10},
      borrow_balance : {1, 4, 8, 9, 10},
      cumulative_deposit_interest : {Pow10(7)},
      cumulative_borrow_interest : {Pow10(7), 2 * Pow10(7)},
      optimal_utilization : {800000},
      optimal_borrow_rate : {100000},
      max_borrow_rate : {1000000},
      last_interest_ts : {0, 100} ]

\* elapsed times of 0 to 1100 seconds
CurveTimestamps == {0, 100, 1000, 1100}

\* SpotBalanceType
SpotBalanceType == {"Deposits", "Borrows"}

\* u128 balances and token amounts given to the conversions
ConvertedAmounts == (0 .. MaxSmall) \cup {7, 100}

\* the fields of Market the conversions read: decimals 12 and 17 to 19
\* (precision 10^7, 100, 10, 1), the failing 20, and cumulative interests
\* that do and do not divide the scaled amounts
ConversionMarkets ==
    [ decimals : {12} \cup Decimals,
      cumulative_deposit_interest : {0, 1, 2, 7, 10, Pow10(7)},
      cumulative_borrow_interest : {0, 1, 2, 7, 10, Pow10(7)} ]

\* the (market, now_ts) pairs given to calculate_accumulated_interest
\* markets whose max_borrow_rate is below their optimal_borrow_rate, borrowed
\* beyond the optimal utilization
InvertedMarkets ==
    [ decimals : {17},
      deposit_balance : {10},
      borrow_balance : {0, 1, 9},
      cumulative_deposit_interest : {10},
      cumulative_borrow_interest : {10},
      optimal_utilization : {0, 800000},
      optimal_borrow_rate : {1000},
      max_borrow_rate : {500},
      last_interest_ts : {0, 10} ]

\* curves (optimal_utilization, optimal_borrow_rate, max_borrow_rate) with the
\* kink at 0, at the lowest and the highest utilization and at 80%
RateCurves ==
    { c \in {0, 1, 800000, SPOT_UTILIZATION_PRECISION - 1} \X {0, 1, 1000} \X {0, 1, 1000} :
        c[2] <= c[3] }
        \cup {<<800000, 100000, 1000000>>}

\* (deposits, borrows) at utilizations 1, 2, 79.9%, 80%, 80.1%, 99.9% and 100%
RatePools ==
    {<<1000000, 1>>, <<1000000, 2>>, <<1000, 799>>, <<1000, 800>>, <<1000, 801>>,
     <<1000, 999>>, <<1000, 1000>>}

\* markets at 19 decimals and cumulative interests of 1, where balances are
\* token amounts
RateMarkets ==
    { [ decimals |-> 19,
        deposit_balance |-> p[1],
        borrow_balance |-> p[2],
        cumulative_deposit_interest |-> 1,
        cumulative_borrow_interest |-> 1,
        optimal_utilization |-> c[1],
        optimal_borrow_rate |-> c[2],
        max_borrow_rate |-> c[3],
        last_interest_ts |-> 0 ] :
      p \in RatePools, c \in RateCurves }

InterestInputs ==
    (Markets \X Timestamps) \cup (CurveMarkets \X CurveTimestamps)
        \cup (InvertedMarkets \X Timestamps) \cup (RateMarkets \X {0, 100})

NoAction == [some |-> FALSE, v |-> "NoAction"]

OptionalActions == {NoAction} \cup {Some(a) : a \in Actions}

\* i64 prices and TWAPs; 3400 is 34.00 at two decimals
OraclePrices == {-1, 0, 100, 3400}
OracleTwaps == {0, 100, 3400}

\* u64 confidence intervals: 0.01, the values around 2% of 100 and of 3400, and
\* a value whose product with BID_ASK_SPREAD_PRECISION overflows
Confidences == {0, 1, MaxSmall, 69, U64_MAX}

Delays == {1, 120, 121}

OraclePriceDatas ==
    [ price : OraclePrices, confidence : Confidences, delay : Delays,
      has_sufficient_data_points : BOOLEAN ]

ValidityGuardRails ==
    [ slots_before_stale_for_margin : {0, 120},
      confidence_interval_max_accepted_divergence : {20000},
      max_volatility_ratio : {5, 50} ]

\* OracleGuardRails::default().validity
DefaultValidityGuardRails ==
    [ slots_before_stale_for_margin |-> 120,
      confidence_interval_max_accepted_divergence |-> 20000,
      max_volatility_ratio |-> 5 ]

OracleGuardRails ==
    [ validity : {DefaultValidityGuardRails},
      price_divergence_guard_rails :
          [ oracle_mark_pct_divergence : {1, 200000} ] ]

HistoricalPriceDatas ==
    [ last_oracle_twap : {100, 3400}, last_oracle_twap_5min : {0, 3400} ]

\* Option<u64> mark prices
LastAcceptablePrices == {None, Some(0), Some(3400), Some(4000), Some(U64_MAX)}

\* the readings given to get_oracle_status and block_action
StatusPriceDatas ==
    [ price : {0, 3400}, confidence : {1, 69}, delay : {1, 121},
      has_sufficient_data_points : BOOLEAN ]

BlockedMarketStatus == {"Initialized", "Active", "FillsPaused"}

\* i64 spreads given to is_oracle_mark_too_divergent
SpreadPcts == {-200001, -100001, -100000, 0, 100000, 100001, 200000, 200001}

\* u64 limit prices and tick sizes
LimitPrices == (0 .. MaxPrice) \cup {U64_MAX - 1, U64_MAX}
TickSizes == 0 .. MaxTick

\* i64 limit prices and tick sizes
SignedLimitPrices == (-MaxPrice .. MaxPrice) \cup {I64_MIN, I64_MAX}
SignedTickSizes == -MaxTick .. MaxTick

\* signed token amounts, i128
SignedAmounts == {-100000000, -100, -7, -1, 0, 1, 7, 100, 100000000}

\* u32 decimals; 10i128.pow overflows from MaxDecimals + 1 on
MaxDecimals == 9
ValueDecimals == {0, 1, 2, MaxDecimals, MaxDecimals + 1}

\* i64 prices and TWAPs of a valuation
ValuePrices == {-1, 0, 1, 3, 10, I64_MAX}

ValuePriceDatas ==
    [ price : ValuePrices, confidence : {0}, delay : {0},
      has_sufficient_data_points : {TRUE} ]

\* u64 base lots of an order
BaseLots == (0 .. MaxLots) \cup {U64_MAX}

Orders ==
    [ base_asset_amount : BaseLots,
      base_asset_filled : 0 .. MaxLots,
      reduce_only : BOOLEAN,
      post_only : BOOLEAN,
      fill_or_kill : BOOLEAN,
      immediate_or_cancel : BOOLEAN,
      pos_direction : PositionDirection ]

\* Option<i64> positions
ExistingPositions == {None} \cup {Some(p) : p \in {I64_MIN, -1, 0, 1, I64_MAX}}

\* u128 deltas of increase_balance and decrease_balance
BalanceDeltas == {0, 1, 2, U64_MAX, U64_MAX + 1, U128_MAX}

\* pools followed at full width over up to ten years: 18 decimals, so that a
\* token is 10 units of scaled balance at a cumulative interest of 1
DustMarkets ==
    [ decimals : {18},
      deposit_balance : {19, 1000, 2000000000},
      borrow_balance : {1, 10, 800, 1000},
      cumulative_deposit_interest : {1, 10},
      cumulative_borrow_interest : {1, 10},
      optimal_utilization : {800000},
      optimal_borrow_rate : {100000},
      max_borrow_rate : {1000000},
      last_interest_ts : {0} ]

DustTimestamps == {0, 100, ONE_YEAR, 10 * ONE_YEAR}

\* integer types of the SafeMath / CheckedCeilDiv / CheckedFloorDiv impls: i8, u8
\* and i16 at their machine width, i128 and u128 at the width of the model
I8 == [name |-> "i8", lo |-> -128, hi |-> 127]
U8 == [name |-> "u8", lo |-> 0, hi |-> 255]
I16 == [name |-> "i16", lo |-> -32768, hi |-> 32767]
I128 == [name |-> "i128", lo |-> I128_MIN, hi |-> I128_MAX]
U128 == [name |-> "u128", lo |-> 0, hi |-> U128_MAX]

SignedTypes == {I8, I16, I128}
UnsignedTypes == {U8, U128}
IntTypes == SignedTypes \cup UnsignedTypes

\* operands of a type: the values around zero, the ends of the type and the
\* operands of the unit tests
Operands(t) ==
    { x \in (-MaxOperand .. MaxOperand)
              \cup {t.lo, t.lo + 1, t.hi - 1, t.hi}
              \cup {-160, -159, -155, 155, 159, 160} : t.lo <= x /\ x <= t.hi }

BigNumberTypes == {U256, U192}

\* wide integers: 0 .. MaxSmall, the largest value and a mid-range value
BigNumbers(ty) ==
    { [i \in 1 .. ty.n_words |-> IF i = 1 THEN low ELSE 0] : low \in 0 .. MaxSmall }
        \cup { [i \in 1 .. ty.n_words |-> U64_MAX],
               [i \in 1 .. ty.n_words |-> IF i = 1 THEN 69 ELSE IF i = ty.n_words THEN 1 ELSE 0] }

\* the little-endian encoding of a wide integer in 32 bytes
LittleEndian32(words) == to_little_endian(words, Zeroed(32)).bytes

\* [u8; 32] arrays: the encodings of the wide integers
ByteArrays == { LittleEndian32(x) : x \in BigNumbers(U256) \cup BigNumbers(U192) }

\* borsh input buffers: the arrays, their first 24 bytes and their first 8 bytes
ByteBuffers ==
    ByteArrays \cup { SubSeq(b, 1, 24) : b \in ByteArrays } \cup { SubSeq(b, 1, 8) : b \in ByteArrays }

\* i64 data points and weights of weighted_average: small points with small
\* weights, the ends of i64 with the weights 0 and 1, and the points -1, 0, 1
\* with the weights at the ends of i64
SmallPoints == (-MaxPoint .. MaxPoint) \cup {-100, 100}
SmallWeights == -1 .. MaxWeight

WeightedAverageInputs ==
    (SmallPoints \X SmallPoints \X SmallWeights \X SmallWeights)
        \cup ({I64_MIN, -1, 7, I64_MAX} \X {I64_MIN, 0, 7, I64_MAX} \X {0, 1} \X {0, 1})
        \cup ({-1, 0, 1} \X {-1, 0, 1} \X {0, 1, I64_MAX} \X {I64_MIN, 0, 1, I64_MAX})

\* prices, unix timestamps and periods of calculate_twap
TwapPrices == {0, 7, 100, 3400}
TwapTimestamps == {I64_MIN, 0, 10, 30, 100, I64_MAX}
TwapPeriods == {0, 1, 60, 300}

\* timestamps of the later updates of a sequence
LaterTimestamps == {0, 10, 30, 100}

(***************************************************************************)
(* The calls                                                               *)
(***************************************************************************)
Idle == fn = "none"

NoArgs == [none |-> TRUE]

Init ==
    /\ fn = "none"
    /\ args = NoArgs
    /\ ret = Ok(0)

\* calls are serial: the caller takes the result before the next call
Return ==
    /\ ~Idle
    /\ fn' = "none"
    /\ args' = NoArgs
    /\ ret' = Ok(0)

CallCalculateUtilization ==
    /\ Idle
    /\ \E d \in TokenAmounts, b \in TokenAmounts :
        /\ fn' = "calculate_utilization"
        /\ args' = [deposits |-> d, borrows |-> b]
        /\ ret' = calculate_utilization(d, b)

CallSpotBalanceCalculateUtilization ==
    /\ Idle
    /\ \E d \in TokenAmounts, b \in TokenAmounts :
        /\ fn' = "spot_balance::calculate_utilization"
        /\ args' = [deposits |-> d, borrows |-> b]
        /\ ret' = spot_balance_calculate_utilization(d, b)

CallCalculateAccumulatedInterest ==
    /\ Idle
    /\ \E input \in InterestInputs :
        /\ fn' = "calculate_accumulated_interest"
        /\ args' = [market |-> input[1], now_ts |-> input[2]]
        /\ ret' = calculate_accumulated_interest(input[1], input[2])

CallCalculatePerMarketUtilization ==
    /\ Idle
    /\ \E market \in Markets \cup CurveMarkets \cup InvertedMarkets :
        /\ fn' = "calculate_per_market_utilization"
        /\ args' = [market |-> market]
        /\ ret' = calculate_per_market_utilization(market)

CallIsOracleValidForAction ==
    /\ Idle
    /\ \E action \in OptionalActions, validity \in OracleValidity :
        /\ fn' = "is_oracle_valid_for_action"
        /\ args' = [action |-> action, validity |-> validity]
        /\ ret' = is_oracle_valid_for_action(action, validity)

CallOracleValidity ==
    /\ Idle
    /\ \E twap \in OracleTwaps, opd \in OraclePriceDatas, guard \in ValidityGuardRails :
        /\ fn' = "oracle_validity"
        /\ args' = [last_oracle_twap |-> twap, oracle_price_data |-> opd,
                    oracle_validity_guard |-> guard]
        /\ ret' = oracle_validity(twap, opd, guard)

CallCalculateOracleTwap5MinMarkSpreadPct ==
    /\ Idle
    /\ \E last \in LastAcceptablePrices, hist \in HistoricalPriceDatas :
        /\ fn' = "calculate_oracle_twap_5min_mark_spread_pct"
        /\ args' = [last_acceptable_price |-> last, historical_oracle_data |-> hist]
        /\ ret' = calculate_oracle_twap_5min_mark_spread_pct(last, hist)

CallIsOracleMarkTooDivergent ==
    /\ Idle
    /\ \E pct \in SpreadPcts, guard \in OracleGuardRails :
        /\ fn' = "is_oracle_mark_too_divergent"
        /\ args' = [price_spread_pct |-> pct,
                    oracle_mark_guard_rails |-> guard.price_divergence_guard_rails]
        /\ ret' = is_oracle_mark_too_divergent(pct, guard.price_divergence_guard_rails)

CallGetOracleStatus ==
    /\ Idle
    /\ \E opd \in StatusPriceDatas, guard \in OracleGuardRails,
          hist \in HistoricalPriceDatas, last \in LastAcceptablePrices :
        /\ fn' = "get_oracle_status"
        /\ args' = [oracle_price_data |-> opd, guard_rails |-> guard,
                    historical_oracle_data |-> hist, last_acceptable_price |-> last]
        /\ ret' = get_oracle_status(opd, guard, hist, last)

CallBlockAction ==
    /\ Idle
    /\ \E status \in BlockedMarketStatus, opd \in StatusPriceDatas, guard \in OracleGuardRails,
          hist \in HistoricalPriceDatas, last \in LastAcceptablePrices :
        /\ fn' = "block_action"
        /\ args' = [market |-> [status |-> status], oracle_price_data |-> opd,
                    guard_rails |-> guard, historical_oracle_data |-> hist,
                    last_acceptable_price |-> last]
        /\ ret' = block_action(status, opd, guard, last, hist)

CallStandardizePrice ==
    /\ Idle
    /\ \E price \in LimitPrices, tick \in TickSizes, dir \in PositionDirection :
        /\ fn' = "standardize_price"
        /\ args' = [price |-> price, tick_size |-> tick, position_direction |-> dir]
        /\ ret' = standardize_price(price, tick, dir)

CallStandardizePriceI64 ==
    /\ Idle
    /\ \E price \in SignedLimitPrices, tick \in SignedTickSizes, dir \in PositionDirection :
        /\ fn' = "standardize_price_i64"
        /\ args' = [price |-> price, tick_size |-> tick, position_direction |-> dir]
        /\ ret' = standardize_price_i64(price, tick, dir)

CallSafeAdd ==
    /\ Idle
    /\ \E t \in IntTypes : \E a \in Operands(t), b \in Operands(t) :
        /\ fn' = "safe_add"
        /\ args' = [ty |-> t, a |-> a, b |-> b]
        /\ ret' = safe_add(a, b, t.lo, t.hi)

CallSafeSub ==
    /\ Idle
    /\ \E t \in IntTypes : \E a \in Operands(t), b \in Operands(t) :
        /\ fn' = "safe_sub"
        /\ args' = [ty |-> t, a |-> a, b |-> b]
        /\ ret' = safe_sub(a, b, t.lo, t.hi)

CallSafeMul ==
    /\ Idle
    /\ \E t \in IntTypes : \E a \in Operands(t), b \in Operands(t) :
        /\ fn' = "safe_mul"
        /\ args' = [ty |-> t, a |-> a, b |-> b]
        /\ ret' = safe_mul(a, b, t.lo, t.hi)

CallSafeDiv ==
    /\ Idle
    /\ \E t \in IntTypes : \E a \in Operands(t), b \in Operands(t) :
        /\ fn' = "safe_div"
        /\ args' = [ty |-> t, a |-> a, b |-> b]
        /\ ret' = safe_div(a, b, t.lo, t.hi)

CallSafeCeilDiv ==
    /\ Idle
    /\ \E t \in IntTypes : \E a \in Operands(t), b \in Operands(t) :
        /\ fn' = "safe_ceil_div"
        /\ args' = [ty |-> t, a |-> a, b |-> b]
        /\ ret' = safe_ceil_div(a, b, t.lo, t.hi)

\* SafeFloorDiv is implemented for the signed types only
CallSafeFloorDiv ==
    /\ Idle
    /\ \E t \in SignedTypes : \E a \in Operands(t), b \in Operands(t) :
        /\ fn' = "safe_floor_div"
        /\ args' = [ty |-> t, a |-> a, b |-> b]
        /\ ret' = safe_floor_div(a, b, t.lo, t.hi)

CallToLeBytes ==
    /\ Idle
    /\ \E ty \in BigNumberTypes : \E x \in BigNumbers(ty) :
        /\ fn' = "to_le_bytes"
        /\ args' = [ty |-> ty, x |-> x]
        /\ ret' = to_le_bytes(ty, x)

CallFromLeBytes ==
    /\ Idle
    /\ \E ty \in BigNumberTypes, bytes \in ByteArrays :
        /\ fn' = "from_le_bytes"
        /\ args' = [ty |-> ty, bytes |-> bytes]
        /\ ret' = from_le_bytes(ty, bytes)

CallDeserialize ==
    /\ Idle
    /\ \E ty \in BigNumberTypes, buf \in ByteBuffers :
        /\ fn' = "deserialize"
        /\ args' = [ty |-> ty, buf |-> buf]
        /\ ret' = deserialize(ty, buf)

CallWeightedAverage ==
    /\ Idle
    /\ \E input \in WeightedAverageInputs :
        /\ fn' = "weighted_average"
        /\ args' = [data_point_1 |-> input[1], data_point_2 |-> input[2],
                    weightage_1 |-> input[3], weightage_2 |-> input[4]]
        /\ ret' = weighted_average(input[1], input[2], input[3], input[4])

CallCalculateTwap ==
    /\ Idle
    /\ \E curr_price \in TwapPrices, curr_ts \in TwapTimestamps, last_twap \in TwapPrices,
          last_ts \in TwapTimestamps, period \in TwapPeriods :
        /\ fn' = "calculate_twap"
        /\ args' = [curr_price |-> curr_price, curr_ts |-> curr_ts, last_twap |-> last_twap,
                    last_ts_of_twap |-> last_ts, period_for_twap_calc |-> period,
                    updates |-> 1,
                    lowest |-> Min(last_twap, curr_price),
                    highest |-> Max(last_twap, curr_price)]
        /\ ret' = calculate_twap(curr_price, curr_ts, last_twap, last_ts, period)

\* the caller keeps the TWAP and the timestamp of an update and calls again at
\* a later time with the next price; updates counts the calls of the sequence,
\* lowest and highest are the extremes of its first TWAP and its prices
CallCalculateTwapAgain ==
    /\ fn = "calculate_twap"
    /\ ret.ok
    /\ args.updates < MaxUpdates
    /\ args.period_for_twap_calc > 0
    /\ args.last_ts_of_twap <= args.curr_ts
    /\ \E curr_price \in TwapPrices, curr_ts \in LaterTimestamps :
        /\ args.curr_ts <= curr_ts
        /\ fn' = "calculate_twap"
        /\ args' = [curr_price |-> curr_price, curr_ts |-> curr_ts, last_twap |-> ret.val,
                    last_ts_of_twap |-> args.curr_ts,
                    period_for_twap_calc |-> args.period_for_twap_calc,
                    updates |-> args.updates + 1,
                    lowest |-> Min(args.lowest, curr_price),
                    highest |-> Max(args.highest, curr_price)]
        /\ ret' = calculate_twap(curr_price, curr_ts, ret.val, args.curr_ts,
                                 args.period_for_twap_calc)

CallGetSpotAssetBalance ==
    /\ Idle
    /\ \E amount \in ConvertedAmounts, market \in ConversionMarkets,
          balance_type \in SpotBalanceType, approximate_up \in BOOLEAN :
        /\ fn' = "get_spot_asset_balance"
        /\ args' = [amount |-> amount, market |-> market, balance_type |-> balance_type,
                    approximate_up |-> approximate_up]
        /\ ret' = get_spot_asset_balance(amount, market, balance_type, approximate_up)

CallGetAmountOfTokens ==
    /\ Idle
    /\ \E balance \in ConvertedAmounts, market \in ConversionMarkets,
          balance_type \in SpotBalanceType :
        /\ fn' = "get_amount_of_tokens"
        /\ args' = [balance |-> balance, market |-> market, balance_type |-> balance_type]
        /\ ret' = get_amount_of_tokens(balance, market, balance_type)

CallGetStrictValue ==
    /\ Idle
    /\ \E amount \in SignedAmounts, decimals \in ValueDecimals, opd \in ValuePriceDatas,
          twap \in ValuePrices, overflow_checks \in BOOLEAN :
        /\ fn' = "get_strict_value"
        /\ args' = [amount |-> amount, decimals |-> decimals, oracle_price_data |-> opd,
                    oracle_price_twap |-> twap, overflow_checks |-> overflow_checks]
        /\ ret' = get_strict_value(amount, decimals, opd, twap, overflow_checks)

CallGetTokenValue ==
    /\ Idle
    /\ \E amount \in SignedAmounts, decimals \in ValueDecimals, price \in ValuePrices,
          overflow_checks \in BOOLEAN :
        /\ fn' = "get_token_value"
        /\ args' = [amount |-> amount, decimals |-> decimals, oracle_price |-> price,
                    overflow_checks |-> overflow_checks]
        /\ ret' = get_token_value(amount, decimals, price, overflow_checks)

CallAreFillsEnabled ==
    /\ Idle
    /\ \E status \in MarketStatus :
        /\ fn' = "are_fills_enabled"
        /\ args' = [status |-> status]
        /\ ret' = OkBool(are_fills_enabled(status))

CallGetUnfilledBaseAmount ==
    /\ Idle
    /\ \E order \in Orders, existing_position \in ExistingPositions,
          num_lots_to_fill \in 0 .. MaxLots :
        /\ fn' = "get_unfilled_base_amount"
        /\ args' = [order |-> order, existing_position |-> existing_position,
                    num_lots_to_fill |-> num_lots_to_fill]
        /\ ret' = get_unfilled_base_amount(order, existing_position, num_lots_to_fill)

IsBalanceCall == fn \in {"increase_balance", "decrease_balance"}

\* a call of increase_balance or decrease_balance on an object
InvokeSpotBalance(name, implementor, scaled_balance, delta, overflow_checks, calls) ==
    /\ fn' = name
    /\ args' = [implementor |-> implementor, scaled_balance |-> scaled_balance,
                delta |-> delta, overflow_checks |-> overflow_checks, calls |-> calls]
    /\ ret' = IF name = "increase_balance"
              THEN increase_balance(implementor, scaled_balance, delta, overflow_checks)
              ELSE decrease_balance(implementor, scaled_balance, delta, overflow_checks)

\* each action is the first call on a new object (Default: scaled_balance = 0)
\* or a further call on the object the last call left; an aborted program makes
\* no further call
CallIncreaseBalance ==
    \E delta \in BalanceDeltas :
        \/ /\ Idle
           /\ \E implementor \in SpotBalanceImplementors, overflow_checks \in BOOLEAN :
                InvokeSpotBalance("increase_balance", implementor, 0, delta, overflow_checks, 1)
        \/ /\ IsBalanceCall
           /\ ret.err # "panic"
           /\ args.calls < MaxCalls
           /\ InvokeSpotBalance("increase_balance", args.implementor, ret.scaled_balance, delta,
                                args.overflow_checks, args.calls + 1)

CallDecreaseBalance ==
    \E delta \in BalanceDeltas :
        \/ /\ Idle
           /\ \E implementor \in SpotBalanceImplementors, overflow_checks \in BOOLEAN :
                InvokeSpotBalance("decrease_balance", implementor, 0, delta, overflow_checks, 1)
        \/ /\ IsBalanceCall
           /\ ret.err # "panic"
           /\ args.calls < MaxCalls
           /\ InvokeSpotBalance("decrease_balance", args.implementor, ret.scaled_balance, delta,
                                args.overflow_checks, args.calls + 1)

\* the interest accumulated by a pool, at full width
CallCalculateAccumulatedInterestU128 ==
    /\ Idle
    /\ \E market \in DustMarkets, now_ts \in DustTimestamps :
        /\ fn' = "calculate_accumulated_interest/u128"
        /\ args' = [market |-> market, now_ts |-> now_ts]
        /\ ret' = u128_calculate_accumulated_interest(market, now_ts)

\* the token interest of one side of the pool for the interest just accumulated
CallGetInterest ==
    /\ fn = "calculate_accumulated_interest/u128"
    /\ ret.ok
    /\ \E balance_type \in {"Deposits", "Borrows"} :
        LET balance == IF balance_type = "Deposits" THEN args.market.deposit_balance
                       ELSE args.market.borrow_balance
            interest == IF balance_type = "Deposits" THEN ret.interest.deposits_interest
                        ELSE ret.interest.borrows_interest
        IN  /\ fn' = "get_interest"
            /\ args' = [balance |-> balance, market |-> args.market, interest |-> interest,
                        balance_type |-> balance_type, accumulated |-> ret.interest]
            /\ ret' = get_interest(balance, args.market, interest)

Next ==
    \/ CallCalculateUtilization
    \/ CallSpotBalanceCalculateUtilization
    \/ CallCalculateAccumulatedInterest
    \/ CallCalculatePerMarketUtilization
    \/ CallIsOracleValidForAction
    \/ CallOracleValidity
    \/ CallCalculateOracleTwap5MinMarkSpreadPct
    \/ CallIsOracleMarkTooDivergent
    \/ CallGetOracleStatus
    \/ CallBlockAction
    \/ CallStandardizePrice
    \/ CallStandardizePriceI64
    \/ CallSafeAdd
    \/ CallSafeSub
    \/ CallSafeMul
    \/ CallSafeDiv
    \/ CallSafeCeilDiv
    \/ CallSafeFloorDiv
    \/ CallToLeBytes
    \/ CallFromLeBytes
    \/ CallDeserialize
    \/ CallWeightedAverage
    \/ CallCalculateTwap
    \/ CallCalculateTwapAgain
    \/ CallGetSpotAssetBalance
    \/ CallGetAmountOfTokens
    \/ CallGetStrictValue
    \/ CallGetTokenValue
    \/ CallAreFillsEnabled
    \/ CallGetUnfilledBaseAmount
    \/ CallIncreaseBalance
    \/ CallDecreaseBalance
    \/ CallCalculateAccumulatedInterestU128
    \/ CallGetInterest
    \/ Return

Spec == Init /\ [][Next]_vars

IsUtilizationCall == fn \in {"calculate_utilization", "spot_balance::calculate_utilization"}

\* C1: calculate_utilization(0, 0) returns 0, in both copies of the function
C1_ZeroUtilizationOfEmptyPool ==
    (IsUtilizationCall /\ args.deposits = 0 /\ args.borrows = 0) => ret = Ok(0)

\* C2: calculate_utilization never faults on a zero divisor: with no deposits
\* and some borrows it returns SPOT_UTILIZATION_PRECISION, with deposits it
\* returns floor(borrows * PRECISION / deposits), and it fails, with
\* MathError, exactly when borrows * PRECISION does not fit in u128
C2_UtilizationSaturatesAndDivides ==
    fn = "calculate_utilization" =>
        IF args.borrows > U128_MAX \div SPOT_UTILIZATION_PRECISION
        THEN ret = ErrInt("MathError")
        ELSE /\ ret.ok
             /\ (args.deposits = 0 /\ args.borrows > 0) => ret.val = SPOT_UTILIZATION_PRECISION
             /\ args.deposits > 0 =>
                    ret.val = (args.borrows * SPOT_UTILIZATION_PRECISION) \div args.deposits

C2_Witness ==
    /\ fn = "calculate_utilization"
    /\ args.deposits = 0
    /\ args.borrows > 0
    /\ ret = Ok(SPOT_UTILIZATION_PRECISION)

\* C3: no activity, no accrual: for every market whose borrow token amount is
\* zero, the empty market included, calculate_accumulated_interest returns
\* deposits_interest = 0 and borrows_interest = 0 for any now_ts
C3_NoBorrowsNoAccrual ==
    (/\ fn = "calculate_accumulated_interest"
     /\ get_amount_of_tokens(args.market.borrow_balance, args.market, "Borrows") = Ok(0))
        => ret = OkInterest(NoInterest)

\* C4: oracle_validity reports a rejected reading as an OracleValidity value:
\* Invalid for every price <= 0, and for the reading 34.00 = last TWAP,
\* confidence 0.01 under the default guard rails, Valid at delay 1 and
\* StaleForMargin at delay 121
C4_RejectedReadingIsClassified ==
    fn = "oracle_validity" =>
        LET opd == args.oracle_price_data
            scenario == /\ opd.price = 3400
                        /\ args.last_oracle_twap = 3400
                        /\ opd.confidence = 1
                        /\ opd.has_sufficient_data_points
                        /\ args.oracle_validity_guard = DefaultValidityGuardRails
        IN  /\ opd.price <= 0 => ret = OkEnum("Invalid")
            /\ (scenario /\ opd.delay = 1) => ret = OkEnum("Valid")
            /\ (scenario /\ opd.delay = 121) => ret = OkEnum("StaleForMargin")

\* the checks of an oracle reading, in priority order, as predicates of the inputs
FailsPrice(opd) == opd.price <= 0

FailsVolatility(twap, opd, guard) ==
    Max(opd.price, twap) \div Max(1, Min(opd.price, twap)) > guard.max_volatility_ratio

\* max(1, confidence) * BID_ASK_SPREAD_PRECISION / price exceeds the accepted
\* divergence; a product beyond u64 exceeds every accepted divergence of the model
FailsConfidence(opd, guard) ==
    \/ Max(1, opd.confidence) > U64_MAX \div BID_ASK_SPREAD_PRECISION
    \/ (Max(1, opd.confidence) * BID_ASK_SPREAD_PRECISION) \div opd.price
            > guard.confidence_interval_max_accepted_divergence

FailsStaleness(opd, guard) == opd.delay > guard.slots_before_stale_for_margin

FirstFailingCheck(twap, opd, guard) ==
    IF FailsPrice(opd) THEN "price"
    ELSE IF FailsVolatility(twap, opd, guard) THEN "volatility"
    ELSE IF FailsConfidence(opd, guard) THEN "confidence"
    ELSE IF FailsStaleness(opd, guard) THEN "staleness"
    ELSE IF ~opd.has_sufficient_data_points THEN "data_points"
    ELSE "none"

\* the check an outcome of oracle_validity reports
ReportedCheck(r) ==
    IF r.ok
    THEN CASE r.tag = "Invalid" -> "price"
           [] r.tag = "Volatile" -> "volatility"
           [] r.tag = "Uncertain" -> "confidence"
           [] r.tag = "StaleForMargin" -> "staleness"
           [] r.tag = "InsufficientDataPoints" -> "data_points"
           [] r.tag = "Valid" -> "none"
    ELSE CASE r.err = "OracleNegativeError" -> "price"
           [] r.err = "OracleTooVolatile" -> "volatility"
           [] r.err \in {"OracleConfidenceTooWide", "MathError"} -> "confidence"
           [] r.err = "OraclePriceStaleForMargin" -> "staleness"
           [] OTHER -> "other"

\* two readings agree on every input of the checks up to and including check
AgreeUpTo(check, twap1, opd1, guard1, twap2, opd2, guard2) ==
    /\ opd1.price = opd2.price
    /\ check # "price" =>
            /\ twap1 = twap2
            /\ guard1.max_volatility_ratio = guard2.max_volatility_ratio
    /\ check \notin {"price", "volatility"} =>
            /\ opd1.confidence = opd2.confidence
            /\ guard1.confidence_interval_max_accepted_divergence
                    = guard2.confidence_interval_max_accepted_divergence
    /\ check \notin {"price", "volatility", "confidence"} =>
            /\ opd1.delay = opd2.delay
            /\ guard1.slots_before_stale_for_margin = guard2.slots_before_stale_for_margin
    /\ check \in {"data_points", "none"} =>
            opd1.has_sufficient_data_points = opd2.has_sufficient_data_points

AcceptedValidity(action) ==
    IF ~action.some THEN {"Valid"}
    ELSE CASE action.v \in {"FillOrder", "MarginCalculation"} -> {"Valid"}
           [] action.v \in {"OrderAdded", "PnLSettlement"} ->
                {"StaleForMargin", "InsufficientDataPoints", "Valid"}
           [] action.v \in {"UpdateTWAP", "Liquidate"} -> {"StaleForMargin", "Valid"}

\* C6: is_oracle_valid_for_action is this closed table: FillOrder,
\* MarginCalculation and no action accept only Valid; OrderAdded and
\* PnLSettlement accept StaleForMargin, InsufficientDataPoints and Valid;
\* UpdateTWAP and Liquidate accept StaleForMargin and Valid; Valid is accepted
\* by every action, Invalid, Volatile and Uncertain by none; it never fails
C6_ValidityTable ==
    fn = "is_oracle_valid_for_action" =>
        /\ ret = OkBool(args.validity \in AcceptedValidity(args.action))
        /\ args.validity = "Valid" => ret = OkBool(TRUE)
        /\ args.validity \in {"Invalid", "Volatile", "Uncertain"} => ret = OkBool(FALSE)

C6_Witness ==
    /\ fn = "is_oracle_valid_for_action"
    /\ args.action = Some("Liquidate")
    /\ args.validity = "InsufficientDataPoints"
    /\ ret = OkBool(FALSE)

\* C7: calculate_oracle_twap_5min_mark_spread_pct returns 0, not an error, when
\* the last mark price is zero or absent, so get_oracle_status with no mark
\* price succeeds on a nominal reading and reports no divergence; for a nonzero
\* mark it returns (mark - twap_5min) * 1_000_000 / mark
C7_ZeroMarkGivesZeroSpread ==
    /\ fn = "calculate_oracle_twap_5min_mark_spread_pct" =>
        LET mark == IF args.last_acceptable_price.some THEN args.last_acceptable_price.v ELSE 0
            twap_5min == args.historical_oracle_data.last_oracle_twap_5min
        IN  /\ mark = 0 => ret = Ok(0)
            /\ (/\ mark # 0
                /\ mark <= I64_MAX
                /\ Abs(mark - twap_5min) <= I128_MAX \div BID_ASK_SPREAD_PRECISION)
                    => ret = Ok(TruncDiv((mark - twap_5min) * BID_ASK_SPREAD_PRECISION, mark))
    /\ (/\ fn = "get_oracle_status"
        /\ args.last_acceptable_price = None
        /\ FirstFailingCheck(args.historical_oracle_data.last_oracle_twap,
                             args.oracle_price_data, args.guard_rails.validity) = "none")
            => (ret.ok /\ ~ret.status.is_mark_price_too_divergent)

\* the mark price is further from the 5 minute TWAP than the guard rails allow
\* (decided where (mark - twap_5min) * 1_000_000 is representable)
ExcessiveDivergence(last_acceptable_price, historical_oracle_data, guard_rails) ==
    LET mark == IF last_acceptable_price.some THEN last_acceptable_price.v ELSE 0
        twap_5min == historical_oracle_data.last_oracle_twap_5min
    IN  /\ mark # 0
        /\ mark <= I64_MAX
        /\ Abs(mark - twap_5min) <= I128_MAX \div BID_ASK_SPREAD_PRECISION
        /\ Abs(TruncDiv((mark - twap_5min) * BID_ASK_SPREAD_PRECISION, mark))
                > Max(guard_rails.price_divergence_guard_rails.oracle_mark_pct_divergence,
                      PERCENTAGE_PRECISION \div 10)

\* C8: block_action returns true whenever the reading is not acceptable for
\* FillOrder, or the mark/oracle divergence is excessive, or the market status
\* is FillsPaused, each on its own: for a FillsPaused market it returns true
\* whatever the reading, the guard rails and the last price are; it returns
\* false only when none of the three holds
C8_EachConditionBlocks ==
    fn = "block_action" =>
        LET paused == args.market.status = "FillsPaused"
            unacceptable ==
                FirstFailingCheck(args.historical_oracle_data.last_oracle_twap,
                                  args.oracle_price_data, args.guard_rails.validity) # "none"
            divergent ==
                ExcessiveDivergence(args.last_acceptable_price, args.historical_oracle_data,
                                    args.guard_rails)
        IN  /\ paused => ret = OkBool(TRUE)
            /\ unacceptable => ret = OkBool(TRUE)
            /\ divergent => ret = OkBool(TRUE)
            /\ ret = OkBool(FALSE) => (~paused /\ ~unacceptable /\ ~divergent)

\* C9: for non-zero price and tick_size for which both calls succeed,
\* standardize_price(Long) <= price <= standardize_price(Short), both results
\* are multiples of tick_size, and they differ by 0 or by tick_size
C9_LongBelowShortAbove ==
    (fn = "standardize_price" /\ args.price # 0 /\ args.tick_size # 0) =>
        LET price == args.price
            tick == args.tick_size
            long == IF args.position_direction = "Long" THEN ret
                    ELSE standardize_price(price, tick, "Long")
            short == IF args.position_direction = "Short" THEN ret
                     ELSE standardize_price(price, tick, "Short")
        IN  (long.ok /\ short.ok) =>
                /\ long.val <= price
                /\ price <= short.val
                /\ long.val % tick = 0
                /\ short.val % tick = 0
                /\ short.val - long.val = (IF price % tick = 0 THEN 0 ELSE tick)

C9_Witness ==
    /\ fn = "standardize_price"
    /\ args.position_direction = "Short"
    /\ args.tick_size # 0
    /\ args.price % args.tick_size # 0
    /\ ret = Ok(args.price + args.tick_size - (args.price % args.tick_size))

\* C10: standardize_price and standardize_price_i64 never return an un-rounded
\* value: for every direction, TwoWay included, and every non-zero price and
\* tick_size, a successful result is a multiple of tick_size
C10_ResultIsMultipleOfTick ==
    (/\ fn \in {"standardize_price", "standardize_price_i64"}
     /\ args.price # 0
     /\ args.tick_size # 0
     /\ ret.ok) => ret.val % Abs(args.tick_size) = 0

\* the mathematical floor and ceiling of a / b, b # 0
Floor(a, b) == IF b > 0 THEN a \div b ELSE (-a) \div (-b)

Ceil(a, b) == -Floor(-a, b)

\* a and b are an operand pair of a type, and x is a value of it
InType(x, t) == t.lo <= x /\ x <= t.hi

\* C11: for signed operands with b # 0 whose floored quotient is representable,
\* safe_floor_div returns the quotient rounded toward minus infinity,
\* floor(a / b); for b = 0 it returns MathError
C11_FloorDivRoundsTowardMinusInfinity ==
    fn = "safe_floor_div" =>
        /\ args.b = 0 => ret = ErrInt("MathError")
        /\ (args.b # 0 /\ InType(Floor(args.a, args.b), args.ty))
                => ret = Ok(Floor(args.a, args.b))

\* C12: on every integer type, unsigned and signed, safe_ceil_div fails on
\* division by zero and otherwise (the quotient being representable) returns
\* the mathematical ceiling of a / b
C12_CeilDivIsCeiling ==
    fn = "safe_ceil_div" =>
        /\ args.b = 0 => ret = ErrInt("MathError")
        /\ (args.b # 0 /\ InType(Ceil(args.a, args.b), args.ty))
                => ret = Ok(Ceil(args.a, args.b))

\* operands small enough for their sum, difference and product to be formed
Exact(a, b) == Abs(a) <= 32768 /\ Abs(b) <= 32768

\* the result of a primitive whose exact value is v, on the type t
ExactOrMathError(v, t) == IF InType(v, t) THEN Ok(v) ELSE ErrInt("MathError")

\* C13: safe_add, safe_sub and safe_mul return the exact result when it is
\* representable in the type and MathError otherwise, never a wrapped value;
\* safe_div returns MathError for a zero divisor and for signed MIN / -1, and
\* the truncated quotient otherwise; safe_add(MAX, 1), safe_sub(0 unsigned, 1)
\* and safe_mul(2, MAX) are MathError
C13_SafeMathIsExactOrMathError ==
    LET a == args.a
        b == args.b
        t == args.ty
    IN  /\ (fn = "safe_add" /\ Exact(a, b)) => ret = ExactOrMathError(a + b, t)
        /\ (fn = "safe_sub" /\ Exact(a, b)) => ret = ExactOrMathError(a - b, t)
        /\ (fn = "safe_mul" /\ Exact(a, b)) => ret = ExactOrMathError(a * b, t)
        /\ (fn = "safe_add" /\ a = t.hi /\ b >= 1) => ret = ErrInt("MathError")
        /\ (fn = "safe_sub" /\ a = t.lo /\ b >= 1) => ret = ErrInt("MathError")
        /\ (fn = "safe_mul" /\ a >= 2 /\ b = t.hi) => ret = ErrInt("MathError")
        /\ fn = "safe_div" =>
                IF b = 0 \/ (t.lo < 0 /\ a = t.lo /\ b = -1)
                THEN ret = ErrInt("MathError")
                ELSE /\ ret.ok
                     /\ Abs(ret.val) = Abs(a) \div Abs(b)
                     /\ ret.val # 0 => (ret.val > 0) = ((a > 0) = (b > 0))

C13_Witness ==
    /\ fn = "safe_add"
    /\ args.ty = U128
    /\ args.a = U128_MAX
    /\ args.b = 1
    /\ ret = ErrInt("MathError")

\* C14: byte round trip of the wide integers: for every U256 and U192 value x,
\* to_le_bytes(x) terminates normally with the little-endian encoding of x in a
\* buffer of the size of the type, and from_le_bytes of it is x
C14_ByteRoundTrip ==
    fn = "to_le_bytes" =>
        /\ ret.ok
        /\ Len(ret.bytes) = args.ty.size_of
        /\ \A i \in 1 .. Len(ret.bytes) :
                ret.bytes[i] = write_u64(args.x[((i - 1) \div 8) + 1], 8)[((i - 1) % 8) + 1]
        /\ from_le_bytes(args.ty, ret.bytes) = OkWords(args.x)

\* the state follows a call of calculate_accumulated_interest on a market of the
\* 80% / 10% / 100% curve at utilization u
OnCurve(u) ==
    /\ fn = "calculate_accumulated_interest"
    /\ args.market \in CurveMarkets
    /\ calculate_per_market_utilization(args.market) = Ok(u)

\* the same, elapsed seconds after the last update of interest
OnCurveAt(u, elapsed) ==
    /\ OnCurve(u)
    /\ args.now_ts - args.market.last_interest_ts = elapsed

\* C15: on the curve optimal_utilization = 80%, optimal_borrow_rate = 10%,
\* max_borrow_rate = 100%, the borrow rate computed inside
\* calculate_accumulated_interest is exactly 100000 at utilization 800000, and
\* at utilization 900000 it is 100000 + 100000 * 4500000 / 1000000 = 550000,
\* between 10% and 100%; after 1000 seconds on a cumulative borrow interest of
\* 10^7 the interest returned is that rate * 10^10 / (ONE_YEAR * 10^6), plus 1
C15_BorrowRateCurveScenario ==
    /\ OnCurve(800000)
            => borrow_rate_of(args.market, 800000) = Ok(100000)
    /\ OnCurve(900000)
            => LET rate == borrow_rate_of(args.market, 900000)
               IN  /\ rate = Ok(550000)
                   /\ rate.val > 100000
                   /\ rate.val < 1000000
    /\ (OnCurveAt(800000, 1000) /\ args.market.cumulative_borrow_interest = Pow10(7))
            => /\ ret.ok
               /\ ret.interest.borrows_interest = (100000 * 10) \div (ONE_YEAR \div 1000) + 1
    /\ (OnCurveAt(900000, 1000) /\ args.market.cumulative_borrow_interest = Pow10(7))
            => /\ ret.ok
               /\ ret.interest.borrows_interest = (550000 * 10) \div (ONE_YEAR \div 1000) + 1

C15_Witness ==
    /\ OnCurveAt(900000, 1000)
    /\ args.market.cumulative_borrow_interest = Pow10(7)
    /\ ret.ok
    /\ ret.interest.borrows_interest = 175

\* the quotient and remainder of a * b by c, digit by digit of b
RECURSIVE DivRemOfProduct(_, _, _)
DivRemOfProduct(a, b, c) ==
    IF b = 0 THEN <<0, 0>>
    ELSE LET high == DivRemOfProduct(a, b \div 10, c)
             digit == b % 10
             rest == 10 * high[2] + (a % c) * digit
         IN  <<10 * high[1] + (a \div c) * digit + rest \div c, rest % c>>

\* floor(a * b / c)
FloorOfProduct(a, b, c) == DivRemOfProduct(a, b, c)[1]

\* C16: for utilization > 0, when the call succeeds, calculate_accumulated_interest
\* returns borrows_interest = floor(cumulative_borrow_interest * rate * elapsed
\* / (ONE_YEAR * SPOT_RATE_PRECISION)) + 1 and deposits_interest =
\* floor(cumulative_deposit_interest * floor(rate * elapsed * utilization /
\* PRECISION) / (ONE_YEAR * SPOT_RATE_PRECISION)), elapsed = now_ts -
\* last_interest_ts: borrows_interest >= 1 always and, for elapsed = 0,
\* borrows_interest = 1 and deposits_interest = 0
C16_AccruedInterestFormula ==
    fn = "calculate_accumulated_interest" =>
        LET market == args.market
            utilization == calculate_per_market_utilization(market)
            rate == borrow_rate_of(market, utilization.val).val
            elapsed == args.now_ts - market.last_interest_ts
            period_deposit_rate ==
                FloorOfProduct(rate * elapsed, utilization.val, SPOT_UTILIZATION_PRECISION)
        IN  (ret.ok /\ utilization.ok /\ utilization.val > 0) =>
                /\ ret.interest.borrows_interest =
                        FloorOfProduct(market.cumulative_borrow_interest, rate * elapsed,
                                       ONE_YEAR) \div SPOT_RATE_PRECISION + 1
                /\ ret.interest.deposits_interest =
                        FloorOfProduct(market.cumulative_deposit_interest, period_deposit_rate,
                                       ONE_YEAR) \div SPOT_RATE_PRECISION
                /\ ret.interest.borrows_interest >= 1
                /\ elapsed = 0 =>
                        /\ ret.interest.borrows_interest = 1
                        /\ ret.interest.deposits_interest = 0

\* a call that accrues on both sides
C16_Witness ==
    /\ fn = "calculate_accumulated_interest"
    /\ args.now_ts - args.market.last_interest_ts = 1000
    /\ ret.ok
    /\ ret.interest.deposits_interest > 0
    /\ ret.interest.borrows_interest > ret.interest.deposits_interest + 1

\* C17 as stated: weighted_average(v1, v2, 0, w2) = v2 and
\* weighted_average(v1, v2, w1, 0) = v1 for all values and all weights, without
\* error; calculate_twap with curr_ts <= last_ts returns last_twap unchanged
C17_ZeroWeightReturnsOther ==
    /\ (fn = "weighted_average" /\ args.weightage_1 = 0) => ret = Ok(args.data_point_2)
    /\ (fn = "weighted_average" /\ args.weightage_2 = 0) => ret = Ok(args.data_point_1)
    /\ (fn = "calculate_twap" /\ args.curr_ts <= args.last_ts_of_twap)
            => ret = Ok(args.last_twap)

\* C17, amended: weighted_average(v1, v2, 0, w2) = v2 for every w2, zero
\* included; weighted_average(v1, v2, w1, 0) = v1 for every w1 other than 0;
\* calculate_twap with curr_ts <= last_ts returns last_twap unchanged when
\* curr_ts - last_ts is representable in i64, and MathError otherwise
C17_ZeroWeightReturnsOtherAmended ==
    /\ (fn = "weighted_average" /\ args.weightage_1 = 0) => ret = Ok(args.data_point_2)
    /\ (fn = "weighted_average" /\ args.weightage_2 = 0 /\ args.weightage_1 # 0)
            => ret = Ok(args.data_point_1)
    /\ (fn = "calculate_twap" /\ args.curr_ts <= args.last_ts_of_twap)
            => IF args.curr_ts < 0 /\ args.last_ts_of_twap > args.curr_ts - I64_MIN
               THEN ret = ErrInt("MathError")
               ELSE ret = Ok(args.last_twap)

\* a zero first weight with a second weight above 1: no nudge is applied
C17_Witness ==
    /\ fn = "weighted_average"
    /\ args.weightage_1 = 0
    /\ args.weightage_2 > 1
    /\ args.data_point_1 # args.data_point_2
    /\ args.data_point_2 # 0
    /\ ret = Ok(args.data_point_2)

\* C18: with both weights nonzero, a successful weighted_average is
\* trunc((v1 * w1 + v2 * w2) / (w1 + w2)) plus a nudge of magnitude at most 1;
\* the nudge is applied only when the weight of the newer data point exceeds 1
\* and never moves the result away from the newer data point, which in
\* calculate_twap is curr_price (data_point_1):
\* |calculate_twap(..) - curr_price| <= |un-nudged average - curr_price|
C18_NudgeTowardNewerPoint ==
    /\ (fn = "weighted_average" /\ args.weightage_1 # 0 /\ args.weightage_2 # 0 /\ ret.ok) =>
            LET average ==
                    TruncDiv(args.data_point_1 * args.weightage_1
                                + args.data_point_2 * args.weightage_2,
                             args.weightage_1 + args.weightage_2)
            IN  /\ Abs(ret.val - average) <= 1
                /\ ret.val # average => args.weightage_1 > 1
                /\ Abs(ret.val - args.data_point_1) <= Abs(average - args.data_point_1)
    /\ (fn = "calculate_twap" /\ ret.ok /\ args.curr_ts > args.last_ts_of_twap) =>
            LET backwards == args.curr_ts - args.last_ts_of_twap
                forwards == Max(1, args.period_for_twap_calc - backwards)
                average ==
                    TruncDiv(args.curr_price * backwards + args.last_twap * forwards,
                             backwards + forwards)
            IN  Abs(ret.val - args.curr_price) <= Abs(average - args.curr_price)

\* C19: get_amount_of_tokens rounds against the user: for Deposits it returns
\* floor(balance * cumulative_deposit_interest / 10^(19 - decimals)), for
\* Borrows ceil(balance * cumulative_borrow_interest / 10^(19 - decimals));
\* with equal cumulative interests the borrow amount is the deposit amount or
\* the deposit amount plus 1; decimals > 19 gives MathError
C19_DepositsFloorBorrowsCeil ==
    fn = "get_amount_of_tokens" =>
        LET market == args.market
            cumulative == IF args.balance_type = "Deposits"
                          THEN market.cumulative_deposit_interest
                          ELSE market.cumulative_borrow_interest
            exact == DivRemOfProduct(args.balance, cumulative, Pow10(19 - market.decimals))
            deposits == get_amount_of_tokens(args.balance, market, "Deposits")
            borrows == get_amount_of_tokens(args.balance, market, "Borrows")
        IN  IF market.decimals > 19 THEN ret = ErrInt("MathError")
            ELSE /\ ret.ok
                 /\ args.balance_type = "Deposits" => ret.val = exact[1]
                 /\ args.balance_type = "Borrows" =>
                        ret.val = exact[1] + (IF exact[2] > 0 THEN 1 ELSE 0)
                 /\ market.cumulative_deposit_interest = market.cumulative_borrow_interest =>
                        /\ borrows.val >= deposits.val
                        /\ borrows.val <= deposits.val + 1

\* a borrow amount that is rounded up
C19_Witness ==
    /\ fn = "get_amount_of_tokens"
    /\ args.balance_type = "Borrows"
    /\ args.market.decimals = 18
    /\ args.balance = 3
    /\ args.market.cumulative_borrow_interest = 7
    /\ ret = Ok(3)

\* C20: rounding up never under-represents an amount: for amount > 0 and
\* cumulative_borrow_interest > 0, when both calls succeed,
\* get_amount_of_tokens(get_spot_asset_balance(amount, market, Borrows, true),
\* market, Borrows) >= amount
C20_RoundUpCoversAmount ==
    (/\ fn = "get_spot_asset_balance"
     /\ args.balance_type = "Borrows"
     /\ args.approximate_up
     /\ args.amount > 0
     /\ args.market.cumulative_borrow_interest > 0
     /\ ret.ok) =>
        LET owed == get_amount_of_tokens(ret.val, args.market, "Borrows")
        IN  owed.ok => owed.val >= args.amount

\* floor(amount * price / 10^decimals) for price > 0; beyond MaxDecimals the
\* divisor exceeds every i128 product, so the floor is 0 or -1 by the sign
FloorOfValue(amount, price, decimals) ==
    IF decimals > MaxDecimals THEN (IF amount < 0 THEN -1 ELSE 0)
    ELSE LET qr == DivRemOfProduct(Abs(amount), price, Pow10(decimals))
         IN  IF amount >= 0 THEN qr[1]
             ELSE IF qr[2] = 0 THEN -qr[1] ELSE -qr[1] - 1

\* C21: with both prices > 0, get_strict_value does not abort, and whenever it
\* returns a value it is floor(amount * price / 10^decimals), price being
\* min(oracle price, twap) for a positive amount and max(oracle price, twap)
\* for a negative one; whenever get_token_value at the oracle price returns a
\* value too, the strict value is at most it
C21_StrictValueIsConservative ==
    (/\ fn = "get_strict_value"
     /\ args.oracle_price_data.price > 0
     /\ args.oracle_price_twap > 0) =>
        LET price == IF args.amount > 0
                     THEN Min(args.oracle_price_data.price, args.oracle_price_twap)
                     ELSE Max(args.oracle_price_data.price, args.oracle_price_twap)
            unstrict == get_token_value(args.amount, args.decimals,
                                        args.oracle_price_data.price, args.overflow_checks)
        IN  /\ ret.err # "panic"
            /\ ret.ok =>
                /\ ret.val = FloorOfValue(args.amount, price, args.decimals)
                /\ unstrict.ok => ret.val <= unstrict.val

\* C22: get_strict_value fails with InvalidOracle whenever the oracle price or
\* the TWAP is not positive, for every amount, amount = 0 included
C22_NonPositivePriceFails ==
    (/\ fn = "get_strict_value"
     /\ (args.oracle_price_data.price <= 0 \/ args.oracle_price_twap <= 0)) =>
        ret = ErrInt("InvalidOracle")
\* C23: are_fills_enabled is true exactly for Active, ReduceOnly and
\* WithdrawPaused, and false for FillsPaused, Initialized, Settlement and Delisted
C23_FillsEnabledStatuses ==
    fn = "are_fills_enabled" =>
        ret = OkBool(args.status \in {"Active", "ReduceOnly", "WithdrawPaused"})
\* the borrow rate is computed: the utilization is > 0 and neither it nor the
\* rate fails
ReachesTimestamp(market) ==
    LET utilization == calculate_per_market_utilization(market)
    IN  /\ utilization.ok
        /\ utilization.val > 0
        /\ borrow_rate_of(market, utilization.val).ok

\* C24 as stated: a negative now_ts always fails with UnableToCastUnixTimestamp,
\* and 0 <= now_ts < last_interest_ts with utilization > 0 fails with MathError
C24_TimestampErrors ==
    fn = "calculate_accumulated_interest" =>
        LET utilization == calculate_per_market_utilization(args.market)
        IN  /\ args.now_ts < 0 => ret = ErrInterest("UnableToCastUnixTimestamp")
            /\ (/\ 0 <= args.now_ts
                /\ args.now_ts < args.market.last_interest_ts
                /\ utilization.ok
                /\ utilization.val > 0) => ret = ErrInterest("MathError")
            /\ ~ret.ok => ret.interest = NoInterest

\* C24, amended: a negative now_ts fails with UnableToCastUnixTimestamp once the
\* borrow rate is computed, and only a negative now_ts gives that error; with
\* utilization 0 the call returns (0, 0) whatever now_ts; an error of the
\* utilization or of the borrow rate is reported first; 0 <= now_ts <
\* last_interest_ts with utilization > 0 fails with MathError; a failing call
\* produces no interest values
C24_TimestampErrorsAmended ==
    fn = "calculate_accumulated_interest" =>
        LET utilization == calculate_per_market_utilization(args.market)
            rate == borrow_rate_of(args.market, utilization.val)
        IN  /\ (args.now_ts < 0 /\ ReachesTimestamp(args.market)) =>
                    ret = ErrInterest("UnableToCastUnixTimestamp")
            /\ ret.err = "UnableToCastUnixTimestamp" => args.now_ts < 0
            /\ (utilization.ok /\ utilization.val = 0) => ret = OkInterest(NoInterest)
            /\ ~utilization.ok => ret = ErrInterest(utilization.err)
            /\ (utilization.ok /\ utilization.val > 0 /\ ~rate.ok) =>
                    ret = ErrInterest(rate.err)
            /\ (/\ 0 <= args.now_ts
                /\ args.now_ts < args.market.last_interest_ts
                /\ utilization.ok
                /\ utilization.val > 0) => ret = ErrInterest("MathError")
            /\ ~ret.ok => ret.interest = NoInterest

\* a negative timestamp on a market that is borrowed from
C24_Witness ==
    /\ fn = "calculate_accumulated_interest"
    /\ args.now_ts < 0
    /\ ReachesTimestamp(args.market)
    /\ ret = ErrInterest("UnableToCastUnixTimestamp")
\* C25: calculate_utilization and calculate_per_market_utilization never return
\* more than SPOT_UTILIZATION_PRECISION
C25_UtilizationAtMostPrecision ==
    (/\ fn \in {"calculate_utilization", "calculate_per_market_utilization"}
     /\ ret.ok) => ret.val <= SPOT_UTILIZATION_PRECISION
\* C26: along a sequence of updates with non-decreasing timestamps and a period
\* > 0, every TWAP returned lies between the lowest and the highest of the
\* first TWAP and the prices fed so far, and a price equal to the current TWAP
\* leaves the TWAP unchanged
C26_TwapWithinObservedRange ==
    (/\ fn = "calculate_twap"
     /\ args.period_for_twap_calc > 0
     /\ args.last_ts_of_twap <= args.curr_ts
     /\ ret.ok) =>
        /\ args.lowest <= ret.val
        /\ ret.val <= args.highest
        /\ args.curr_price = args.last_twap => ret.val = args.last_twap
\* utilizations at which the borrow rate of a curve is compared
SampleUtilizations ==
    {1, 2, 3, 400000, 799999, 800000, 800001, 900000, 999998, 999999, 1000000}

\* C27: on a market with optimal_borrow_rate <= max_borrow_rate and
\* optimal_utilization < SPOT_UTILIZATION_PRECISION, at a utilization in
\* (0, PRECISION] the borrow rate of calculate_accumulated_interest is computed
\* without error (no division by zero, optimal_utilization = 0 included), is at
\* most max_borrow_rate, is at least the rate at every lower utilization, the
\* kink included
C27_BorrowRateMonotoneAndCapped ==
    (/\ fn = "calculate_accumulated_interest"
     /\ args.market.optimal_borrow_rate <= args.market.max_borrow_rate
     /\ args.market.optimal_utilization < SPOT_UTILIZATION_PRECISION) =>
        LET market == args.market
            utilization == calculate_per_market_utilization(market)
            rate == borrow_rate_of(market, utilization.val)
        IN  (/\ utilization.ok
             /\ utilization.val > 0
             /\ utilization.val <= SPOT_UTILIZATION_PRECISION) =>
                /\ rate.ok
                /\ rate.val <= market.max_borrow_rate
                /\ \A lower \in SampleUtilizations :
                        lower <= utilization.val =>
                            /\ borrow_rate_of(market, lower).ok
                            /\ borrow_rate_of(market, lower).val <= rate.val
                /\ \A higher \in SampleUtilizations :
                        higher >= utilization.val =>
                            /\ borrow_rate_of(market, higher).ok
                            /\ borrow_rate_of(market, higher).val >= rate.val
                            /\ borrow_rate_of(market, higher).val <= market.max_borrow_rate

\* a market borrowed beyond a kink at utilization 0, with a rising curve
C27_Witness ==
    /\ fn = "calculate_accumulated_interest"
    /\ args.market.optimal_utilization = 0
    /\ args.market.optimal_borrow_rate < args.market.max_borrow_rate
    /\ calculate_per_market_utilization(args.market) = Ok(801000)
    /\ borrow_rate_of(args.market, 801000).ok
    /\ borrow_rate_of(args.market, 801000).val > args.market.optimal_borrow_rate
    /\ ret.ok
\* C29: whenever get_unfilled_base_amount returns a value, it is at most
\* base_asset_amount - base_asset_filled, and the call fails when
\* base_asset_filled > base_asset_amount
C29_UnfilledAtMostRemaining ==
    fn = "get_unfilled_base_amount" =>
        /\ ret.ok => ret.val <= args.order.base_asset_amount - args.order.base_asset_filled
        /\ args.order.base_asset_filled > args.order.base_asset_amount => ~ret.ok
\* the largest balance of an implementor
MaxBalance(implementor) == IF implementor = "Position" THEN U64_MAX ELSE U128_MAX

\* C30: along any sequence of increase_balance and decrease_balance calls on a
\* Position or a PoolBalance, no call aborts; a decrease by more than the
\* balance and an increase beyond the balance's type return an error and leave
\* the balance as it was; a successful call leaves the balance plus or minus
\* delta exactly
C30_BalanceNeverWrapsOrAborts ==
    IsBalanceCall =>
        LET unrepresentable ==
                IF fn = "increase_balance"
                THEN args.delta > MaxBalance(args.implementor) - args.scaled_balance
                ELSE args.delta > args.scaled_balance
        IN  /\ ret.err # "panic"
            /\ unrepresentable => ~ret.ok
            /\ ~ret.ok => ret.scaled_balance = args.scaled_balance
            /\ (ret.ok /\ fn = "increase_balance") =>
                    ret.scaled_balance - args.delta = args.scaled_balance
            /\ (ret.ok /\ fn = "decrease_balance") =>
                    ret.scaled_balance = args.scaled_balance - args.delta
\* the token interest charged to the borrowers for the interest accumulated
\* with the deposit-side interest of a get_interest call
BorrowersInterest ==
    get_interest(args.market.borrow_balance, args.market, args.accumulated.borrows_interest)

\* C28: interest is borrower-funded: for a market with positive cumulative
\* interests and a utilization of at most SPOT_UTILIZATION_PRECISION, whenever
\* the calls succeed, the token interest get_interest credits to the deposits
\* for the accumulated deposits_interest is at most the token interest it
\* charges the borrows for the accumulated borrows_interest
C28_InterestIsBorrowerFunded ==
    (/\ fn = "get_interest"
     /\ args.balance_type = "Deposits"
     /\ ret.ok
     /\ BorrowersInterest.ok
     /\ args.market.cumulative_deposit_interest > 0
     /\ args.market.cumulative_borrow_interest > 0
     /\ ~WideLess(Wide(SPOT_UTILIZATION_PRECISION),
                  u128_calculate_per_market_utilization(args.market).val))
        => ~WideLess(BorrowersInterest.val, ret.val)

====
